---- MODULE Spec2Model ----
(***************************************************************************)
(* Account merge / dedup of the sign-in Chrome extension.                  *)
(*                                                                         *)
(*   popup.js   mergeConfigs(existingConfigs, newConfigs), the validation  *)
(*              loop of doImport that feeds it                             *)
(*   merge.js   mergeConfigs(allConfigs) of the stand-alone merge tool     *)
(*                                                                         *)
(* JavaScript values are tagged records, strings are sequences of          *)
(* one-character strings, arrays live in a heap addressed by reference.    *)
(***************************************************************************)
EXTENDS Integers, Sequences, FiniteSets, TLC

(***************************************************************************)
(* Bounds of the model.                                                    *)
(***************************************************************************)
\* longest pasted / parsed input array
MaxIn == 2
\* longest stored (existing) account list
MaxEx == 2
\* longest array pasted into the popup's import box
MaxPaste == 1
\* number of popup operations (clicks) of one run
MaxOps == 3
\* longest text pasted into the merge tool
MaxText == 5
\* longest failed_sites list of the report, longest saved list of the export
MaxFailed == 2

(***************************************************************************)
(* JavaScript values.                                                      *)
(***************************************************************************)
Undefined == [t |-> "undefined", s |-> <<>>, n |-> 0]

Str(s) == [t |-> "string", s |-> s, n |-> 0]

Num(n) == [t |-> "number", s |-> <<>>, n |-> n]

\* ToBoolean: undefined, "" and 0 are falsy; non-empty strings and non-zero
\* numbers are truthy (the `!x` and `x || y` tests of the code).
Truthy(v) ==
  \/ v.t = "string" /\ v.s # <<>>
  \/ v.t = "number" /\ v.n # 0

Digit(d) == <<"0", "1", "2", "3", "4", "5", "6", "7", "8", "9">>[d + 1]

RECURSIVE NatToString(_)
NatToString(n) ==
  IF n < 10 THEN <<Digit(n)>> ELSE NatToString(n \div 10) \o <<Digit(n % 10)>>

\* ToString as applied by a template literal `${x}` and by String(x).
JsToString(v) ==
  CASE v.t = "string" -> v.s
    [] v.t = "number" -> NatToString(v.n)
    [] OTHER -> <<"u", "n", "d", "e", "f", "i", "n", "e", "d">>

\* the fallback provider of doImport and of the merge tool
Anyrouter == <<"a", "n", "y", "r", "o", "u", "t", "e", "r">>

\* mutant: the provider is lower-cased in the key
TemplateKey_caseFolded(provider, api_user) ==
  LET p == JsToString(provider)
  IN [i \in 1..Len(p) |-> IF p[i] = "A" THEN "a" ELSE IF p[i] = "B" THEN "b" ELSE p[i]]
       \o <<"_">> \o JsToString(api_user)

\* `${provider}_${api_user}`
TemplateKey(provider, api_user) == JsToString(provider) \o <<"_">> \o JsToString(api_user)

(***************************************************************************)
(* String.prototype.localeCompare.  The comparison is the locale collation *)
(* (ICU root rules for the characters used here): the strings are compared *)
(* first by their primary weights, where punctuation sorts before digits,  *)
(* digits before letters and a letter has the weight of its lower-case     *)
(* form; strings of equal primary weights are then ordered by case, lower  *)
(* case first.  Two different strings never compare equal.                 *)
(***************************************************************************)
Lower(c) ==
  CASE c = "A" -> "a"
    [] c = "B" -> "b"
    [] OTHER -> c

PrimaryOrder ==
  <<"_", "0", "1", "2", "3", "4", "5", "6", "7", "8", "9",
    "a", "b", "c", "d", "e", "f", "g", "i", "k", "l", "n", "o", "r", "s", "t", "u", "w",
    "x", "y">>

PrimaryWeight(c) == CHOOSE i \in 1..Len(PrimaryOrder) : PrimaryOrder[i] = Lower(c)

CaseWeight(c) == IF Lower(c) = c THEN 0 ELSE 1

\* lexicographic comparison of two sequences of integers: -1, 0 or 1
RECURSIVE LexCompare(_, _)
LexCompare(x, y) ==
  IF x = <<>> THEN (IF y = <<>> THEN 0 ELSE -1)
  ELSE IF y = <<>> THEN 1
  ELSE IF Head(x) < Head(y) THEN -1
  ELSE IF Head(x) > Head(y) THEN 1
  ELSE LexCompare(Tail(x), Tail(y))

localeCompare(x, y) ==
  LET px == [i \in 1..Len(x) |-> PrimaryWeight(x[i])]
      py == [i \in 1..Len(y) |-> PrimaryWeight(y[i])]
      p == LexCompare(px, py)
  IN IF p # 0 THEN p
     ELSE LexCompare([i \in 1..Len(x) |-> CaseWeight(x[i])],
                     [i \in 1..Len(y) |-> CaseWeight(y[i])])

(***************************************************************************)
(* Elements of a parsed JSON array.  k is the kind of the element: an      *)
(* object, null, or a number.  cookies is "object" when the element has a  *)
(* cookies object (whose session member is `session`) and "undefined"      *)
(* when it has none.                                                       *)
(***************************************************************************)
Obj(name, provider, cookies, session, api_user) ==
  [k |-> "object", name |-> name, provider |-> provider, cookies |-> cookies,
   session |-> session, api_user |-> api_user]

JsNull ==
  [k |-> "null", name |-> Undefined, provider |-> Undefined, cookies |-> "undefined",
   session |-> Undefined, api_user |-> Undefined]

JsNumber ==
  [k |-> "number", name |-> Undefined, provider |-> Undefined, cookies |-> "undefined",
   session |-> Undefined, api_user |-> Undefined]

\* the object literal { name, provider, cookies: { session }, api_user }
Account(name, provider, session, api_user) ==
  Obj(name, provider, "object", session, api_user)

\* `config.cookies` raises a TypeError when config is null
ReadThrows(config) == config.k = "null"

\* config.cookies?.session
CookiesSession(config) ==
  IF config.k = "object" /\ config.cookies = "object" THEN config.session ELSE Undefined

\* mutant: the api_user test is left out
Invalid_sessionOnly(config) == ~Truthy(CookiesSession(config))

\* !config.cookies?.session || !config.api_user
Invalid(config) == ~Truthy(CookiesSession(config)) \/ ~Truthy(config.api_user)

(***************************************************************************)
(* popup.js doImport, the loop that validates and completes the parsed     *)
(* array newConfigs.  The state of the loop is the array itself (the loop  *)
(* assigns config.provider), validConfigs, and whether a TypeError ended   *)
(* it.                                                                     *)
(***************************************************************************)
doImport_push(config) ==
  Account(IF Truthy(config.name) THEN config.name
          ELSE Str(TemplateKey(config.provider, config.api_user)),
          config.provider,
          config.session,
          Str(JsToString(config.api_user)))

\* mutant: the missing provider is not filled in
doImport_fill_skipped(config) == config

doImport_fill(config) ==
  IF ~Truthy(config.provider) THEN [config EXCEPT !.provider = Str(Anyrouter)] ELSE config

RECURSIVE doImport_loop(_, _)
doImport_loop(st, i) ==
  IF i > Len(st.newConfigs) THEN st
  ELSE LET config == st.newConfigs[i] IN
       IF ReadThrows(config) THEN [st EXCEPT !.threw = TRUE]
       ELSE IF Invalid(config) THEN doImport_loop(st, i + 1)
       ELSE LET filled == doImport_fill(config) IN
            doImport_loop([st EXCEPT !.newConfigs[i] = filled,
                                     !.validConfigs = Append(@, doImport_push(filled))],
                          i + 1)

doImport_validate(newConfigs) ==
  doImport_loop([newConfigs |-> newConfigs, validConfigs |-> <<>>, threw |-> FALSE], 1)

(***************************************************************************)
(* Array.prototype.sort((a, b) => a.provider.localeCompare(b.provider)).   *)
(* The sort is stable.  a.provider.localeCompare is a TypeError when       *)
(* a.provider is no string; b.provider is converted with ToString.  Which  *)
(* element is passed as `a` is up to the engine, so an array of two or     *)
(* more elements that mixes string and non-string providers may sort or    *)
(* throw.                                                                  *)
(***************************************************************************)
compareFn(a, b) == localeCompare(JsToString(a.provider), JsToString(b.provider))

\* mutant: an unstable sort, x goes in front of the elements it ties with
RECURSIVE SortInsert_unstable(_, _)
SortInsert_unstable(sorted, x) ==
  IF sorted = <<>> THEN <<x>>
  ELSE IF compareFn(x, sorted[Len(sorted)]) <= 0
       THEN Append(SortInsert_unstable(SubSeq(sorted, 1, Len(sorted) - 1), x),
                   sorted[Len(sorted)])
       ELSE Append(sorted, x)

\* insert x behind every element that does not sort after it
RECURSIVE SortInsert(_, _)
SortInsert(sorted, x) ==
  IF sorted = <<>> THEN <<x>>
  ELSE IF compareFn(x, sorted[Len(sorted)]) < 0
       THEN Append(SortInsert(SubSeq(sorted, 1, Len(sorted) - 1), x), sorted[Len(sorted)])
       ELSE Append(sorted, x)

RECURSIVE SortFrom(_, _, _)
SortFrom(arr, i, sorted) ==
  IF i > Len(arr) THEN sorted ELSE SortFrom(arr, i + 1, SortInsert(sorted, arr[i]))

\* mutant: the array is returned in the order it was built
sort_omitted(arr) == arr

sort(arr) == SortFrom(arr, 1, <<>>)

\* the outcomes of arr.sort(compare): [threw, arr]
sortOutcomes(arr) ==
  LET nonString == {i \in 1..Len(arr) : arr[i].provider.t # "string"}
      ok == [threw |-> FALSE, arr |-> sort(arr)]
      typeError == [threw |-> TRUE, arr |-> arr]
  IN IF Len(arr) < 2 \/ nonString = {} THEN {ok}
     ELSE IF nonString = 1..Len(arr) THEN {typeError}
     ELSE {ok, typeError}

(***************************************************************************)
(* popup.js mergeConfigs(existingConfigs, newConfigs).  h is the heap of   *)
(* arrays, existingConfigs and newConfigs are references into it, fresh is *)
(* the reference the spread copy [...existingConfigs] is allocated at.     *)
(***************************************************************************)
\* merged.findIndex(c => `${c.provider}_${c.api_user}` === key); 0 for -1
findIndex(arr, key) ==
  LET hits == {i \in 1..Len(arr) : TemplateKey(arr[i].provider, arr[i].api_user) = key}
  IN IF hits = {} THEN 0 ELSE CHOOSE i \in hits : \A j \in hits : i <= j

\* mutant: const merged = existingConfigs, no copy
spreadCopy_alias(h, existingConfigs, fresh) == [h |-> h, merged |-> existingConfigs]

\* mutant: const merged = [], the existing records are not taken over
spreadCopy_empty(h, existingConfigs, fresh) ==
  [h |-> [h EXCEPT ![fresh] = <<>>], merged |-> fresh]

\* const merged = [...existingConfigs]
spreadCopy(h, existingConfigs, fresh) ==
  [h |-> [h EXCEPT ![fresh] = h[existingConfigs]], merged |-> fresh]

\* mutant: a new key is appended but counted as an update
mergeConfigs_step_miscount(st, newConfig) ==
  LET key == TemplateKey(newConfig.provider, newConfig.api_user)
      existingIndex == findIndex(st.h[st.merged], key)
  IN IF existingIndex > 0
     THEN [st EXCEPT !.h[st.merged][existingIndex] = newConfig, !.updated = @ + 1]
     ELSE [st EXCEPT !.h[st.merged] = Append(@, newConfig), !.updated = @ + 1]

\* mutant: a replaced record is not counted
mergeConfigs_step_uncounted(st, newConfig) ==
  LET key == TemplateKey(newConfig.provider, newConfig.api_user)
      existingIndex == findIndex(st.h[st.merged], key)
  IN IF existingIndex > 0
     THEN [st EXCEPT !.h[st.merged][existingIndex] = newConfig]
     ELSE [st EXCEPT !.h[st.merged] = Append(@, newConfig), !.added = @ + 1]

\* the body of the for loop, for one newConfig
mergeConfigs_step(st, newConfig) ==
  LET key == TemplateKey(newConfig.provider, newConfig.api_user)
      existingIndex == findIndex(st.h[st.merged], key)
  IN IF existingIndex > 0
     THEN [st EXCEPT !.h[st.merged][existingIndex] = newConfig, !.updated = @ + 1]
     ELSE [st EXCEPT !.h[st.merged] = Append(@, newConfig), !.added = @ + 1]

RECURSIVE mergeConfigs_loop(_, _, _)
mergeConfigs_loop(st, newConfigs, i) ==
  IF i > Len(st.h[newConfigs]) THEN st
  ELSE mergeConfigs_loop(mergeConfigs_step(st, st.h[newConfigs][i]), newConfigs, i + 1)

\* the set of outcomes [h, merged, updated, added, threw] of one call
mergeConfigs(h, existingConfigs, newConfigs, fresh) ==
  LET c == spreadCopy(h, existingConfigs, fresh)
      st == mergeConfigs_loop([h |-> c.h, merged |-> c.merged, updated |-> 0,
                               added |-> 0, threw |-> FALSE],
                              newConfigs, 1)
  IN {[st EXCEPT !.h[st.merged] = o.arr, !.threw = o.threw] :
        o \in sortOutcomes(st.h[st.merged])}

(***************************************************************************)
(* merge.js mergeConfigs(allConfigs).  configMap is kept as the sequence   *)
(* of its entries <<key, value>> in insertion order: Map.set on a key      *)
(* that is present replaces the value and keeps the entry's position.      *)
(***************************************************************************)
\* mutant: Map.set leaves the value of a key that is present
mapSet_keepFirst(configMap, key, value) ==
  IF \E i \in 1..Len(configMap) : configMap[i][1] = key THEN configMap
  ELSE Append(configMap, <<key, value>>)

mapSet(configMap, key, value) ==
  LET hits == {i \in 1..Len(configMap) : configMap[i][1] = key}
  IN IF hits = {} THEN Append(configMap, <<key, value>>)
     ELSE [i \in 1..Len(configMap) |->
             IF i \in hits THEN <<key, value>> ELSE configMap[i]]

tool_normalized(config) ==
  LET provider == IF Truthy(config.provider) THEN config.provider ELSE Str(Anyrouter)
  IN Account(IF Truthy(config.name) THEN config.name
             ELSE Str(TemplateKey(provider, config.api_user)),
             provider,
             config.session,
             Str(JsToString(config.api_user)))

tool_key(config) ==
  TemplateKey(IF Truthy(config.provider) THEN config.provider ELSE Str(Anyrouter),
              config.api_user)

RECURSIVE tool_loop(_, _, _)
tool_loop(st, allConfigs, i) ==
  IF i > Len(allConfigs) THEN st
  ELSE LET config == allConfigs[i] IN
       IF ReadThrows(config) THEN [st EXCEPT !.threw = TRUE]
       ELSE IF Invalid(config) THEN tool_loop(st, allConfigs, i + 1)
       ELSE tool_loop([st EXCEPT !.configMap =
                                   mapSet(@, tool_key(config), tool_normalized(config))],
                      allConfigs, i + 1)

\* the set of outcomes [result, threw] of one call
tool_mergeConfigs(allConfigs) ==
  LET st == tool_loop([configMap |-> <<>>, threw |-> FALSE], allConfigs, 1)
      values == [i \in 1..Len(st.configMap) |-> st.configMap[i][2]]
  IN IF st.threw THEN {[result |-> <<>>, threw |-> TRUE]}
     ELSE {[result |-> o.arr, threw |-> o.threw] : o \in sortOutcomes(values)}

(***************************************************************************)
(* merge.js extractJsonArrays(text).  The pasted text is a sequence of     *)
(* characters out of "[", "]", "," and "1".  JSON.parse on such a text is  *)
(* a recursive descent: a value is a number (a run of digits) or an array  *)
(* "[" "]" or "[" value ("," value)* "]", and the whole text has to be one *)
(* value.                                                                  *)
(***************************************************************************)
Arr(items) == [t |-> "array", s |-> items, n |-> 0]

SyntaxError == [ok |-> FALSE, v |-> Undefined, next |-> 0]

\* the end of the run of digits that starts at i
RECURSIVE DigitsEnd(_, _)
DigitsEnd(s, i) == IF i <= Len(s) /\ s[i] = "1" THEN DigitsEnd(s, i + 1) ELSE i

\* the number written as k digits "1"
RECURSIVE Ones(_)
Ones(k) == IF k = 0 THEN 0 ELSE 10 * Ones(k - 1) + 1

RECURSIVE ParseValue(_, _)
RECURSIVE ParseItems(_, _, _)
ParseValue(s, i) ==
  IF i > Len(s) THEN SyntaxError
  ELSE IF s[i] = "1"
  THEN [ok |-> TRUE, v |-> Num(Ones(DigitsEnd(s, i) - i)), next |-> DigitsEnd(s, i)]
  ELSE IF s[i] = "["
  THEN IF i + 1 <= Len(s) /\ s[i + 1] = "]"
       THEN [ok |-> TRUE, v |-> Arr(<<>>), next |-> i + 2]
       ELSE ParseItems(s, i + 1, <<>>)
  ELSE SyntaxError

\* the elements of an array from position i on, up to its "]"
ParseItems(s, i, items) ==
  LET r == ParseValue(s, i) IN
  IF ~r.ok \/ r.next > Len(s) THEN SyntaxError
  ELSE IF s[r.next] = "," THEN ParseItems(s, r.next + 1, Append(items, r.v))
  ELSE IF s[r.next] = "]"
  THEN [ok |-> TRUE, v |-> Arr(Append(items, r.v)), next |-> r.next + 1]
  ELSE SyntaxError

\* JSON.parse(jsonStr): [ok, v]; ok is FALSE when it throws a SyntaxError
JSON_parse(jsonStr) ==
  LET r == ParseValue(jsonStr, 1)
  IN IF r.ok /\ r.next = Len(jsonStr) + 1 THEN [ok |-> TRUE, v |-> r.v]
     ELSE [ok |-> FALSE, v |-> Undefined]

\* the try block of the loop: arrays.push(arr) when jsonStr parses to an array
extractJsonArrays_push(arrays, jsonStr) ==
  LET arr == JSON_parse(jsonStr)
  IN IF arr.ok /\ arr.v.t = "array" THEN Append(arrays, arr.v) ELSE arrays

\* the body of the for loop for text[i] (i counts from 0)
extractJsonArrays_body(st, txt) ==
  LET char == txt[st.i + 1] IN
  IF char = "["
  THEN [st EXCEPT !.start = IF st.depth = 0 THEN st.i ELSE @,
                  !.depth = @ + 1,
                  !.i = @ + 1]
  ELSE IF char = "]"
  THEN IF st.depth - 1 = 0 /\ st.start # -1
       THEN [st EXCEPT !.depth = @ - 1,
                       !.arrays = extractJsonArrays_push(@, SubSeq(txt, st.start + 1, st.i + 1)),
                       !.start = -1,
                       !.i = @ + 1]
       ELSE [st EXCEPT !.depth = @ - 1, !.i = @ + 1]
  ELSE [st EXCEPT !.i = @ + 1]

(***************************************************************************)
(* The NEWAPI_ACCOUNTS export of the newer popup: dedupeByProviderApiUser, *)
(* buildFailedTemplateAccounts and the list copyNewapiAccountsForSecret    *)
(* builds.  An entry of failed_sites is [provider, api_user,               *)
(* account_name].                                                          *)
(***************************************************************************)
\* String.prototype.trim, for the blank " "
RECURSIVE TrimStart(_)
TrimStart(s) == IF s # <<>> /\ Head(s) = " " THEN TrimStart(Tail(s)) ELSE s

RECURSIVE TrimEnd(_)
TrimEnd(s) ==
  IF s # <<>> /\ s[Len(s)] = " " THEN TrimEnd(SubSeq(s, 1, Len(s) - 1)) ELSE s

trim(s) == TrimEnd(TrimStart(s))

Unknown == <<"u", "n", "k", "n", "o", "w", "n">>

REPLACE_ME == <<"R", "E", "P", "L", "A", "C", "E", "_", "M", "E">>

REPLACE_ME_SESSION == REPLACE_ME \o <<"_", "S", "E", "S", "S", "I", "O", "N">>

\* the for loop of dedupeByProviderApiUser, m as a sequence of entries
RECURSIVE dedupe_loop(_, _, _)
dedupe_loop(m, configs, i) ==
  IF i > Len(configs) THEN m
  ELSE LET c == configs[i] IN
       IF ~Truthy(c.provider) \/ ~Truthy(c.api_user) THEN dedupe_loop(m, configs, i + 1)
       ELSE dedupe_loop(mapSet(m, TemplateKey(c.provider, c.api_user), c), configs, i + 1)

\* the set of outcomes [threw, arr] of dedupeByProviderApiUser(configs)
dedupeByProviderApiUser(configs) ==
  LET m == dedupe_loop(<<>>, configs, 1)
  IN sortOutcomes([i \in 1..Len(m) |-> m[i][2]])

\* the callback of failedSites.forEach for (site, idx), idx counting from 0
buildFailed_each(templates, site, idx) ==
  LET provider == trim(JsToString(IF Truthy(site.provider) THEN site.provider
                                  ELSE Str(Unknown)))
      rawApiUser == trim(JsToString(IF Truthy(site.api_user) THEN site.api_user
                                    ELSE Str(<<>>)))
      apiUser == IF rawApiUser # <<>> THEN rawApiUser
                 ELSE REPLACE_ME \o <<"_">> \o provider \o <<"_">> \o NatToString(idx + 1)
      accountName == IF Truthy(site.account_name) THEN site.account_name
                     ELSE Str(provider \o <<"_">> \o apiUser)
  IN IF provider = <<>> THEN templates
     ELSE Append(templates,
                 Account(accountName, Str(provider), Str(REPLACE_ME_SESSION), Str(apiUser)))

RECURSIVE buildFailed_forEach(_, _, _)
buildFailed_forEach(templates, failedSites, i) ==
  IF i > Len(failedSites) THEN templates
  ELSE buildFailed_forEach(buildFailed_each(templates, failedSites[i], i - 1),
                           failedSites, i + 1)

\* the set of outcomes [threw, arr] of buildFailedTemplateAccounts()
buildFailedTemplateAccounts(failedSites) ==
  dedupeByProviderApiUser(buildFailed_forEach(<<>>, failedSites, 1))

\* mutant: the templates of every provider are kept
anyrouterFilter_all(templates) == templates

\* .filter((x) => x.provider === "anyrouter")
anyrouterFilter(templates) ==
  LET RECURSIVE keep(_)
      keep(i) == IF i > Len(templates) THEN <<>>
                 ELSE IF templates[i].provider = Str(Anyrouter)
                 THEN <<templates[i]>> \o keep(i + 1)
                 ELSE keep(i + 1)
  IN keep(1)

\* the set of outcomes [threw, arr] of the list copyNewapiAccountsForSecret
\* builds from the loaded savedConfigs and the failed sites
copyNewapiAccounts_merged(localConfigs, failedSites) ==
  UNION {IF b.threw THEN {b}
         ELSE dedupeByProviderApiUser(localConfigs \o anyrouterFilter(b.arr)) :
           b \in buildFailedTemplateAccounts(failedSites)}

(***************************************************************************)
(* The inputs.  RawUniverse holds the elements a pasted JSON array is      *)
(* built from, StoredUniverse the accounts a stored list is built from.    *)
(***************************************************************************)
SeqsUpTo(S, n) == UNION {[1..m -> S] : m \in 0..n}

RawUniverse ==
  { \* complete but for the name
    Obj(Undefined, Str(<<"a">>), "object", Str(<<"n", "e", "w">>), Str(<<"1">>)),
    \* api_user given as a number, same key as the record above
    Obj(Str(<<"n">>), Str(<<"a">>), "object", Str(<<"t">>), Num(1)),
    \* upper-case provider
    Obj(Undefined, Str(<<"B">>), "object", Str(<<"s">>), Str(<<"2">>)),
    \* no provider
    Obj(Undefined, Undefined, "object", Str(<<"s">>), Str(<<"1">>)),
    \* no cookies object
    Obj(Undefined, Str(<<"a">>), "undefined", Undefined, Str(<<"3">>)),
    \* empty session
    Obj(Undefined, Str(<<"a">>), "object", Str(<<>>), Str(<<"3">>)),
    \* no api_user
    Obj(Undefined, Str(<<"a">>), "object", Str(<<"s">>), Undefined),
    \* api_user is the number 0
    Obj(Undefined, Str(<<"a">>), "object", Str(<<"s">>), Num(0)),
    \* provider is a number
    Obj(Undefined, Num(5), "object", Str(<<"s">>), Str(<<"1">>)),
    JsNull,
    JsNumber }

StoredUniverse ==
  { Account(Str(<<"a", "_", "1">>), Str(<<"a">>), Str(<<"o", "l", "d">>), Str(<<"1">>)),
    Account(Str(<<"a", "_", "2">>), Str(<<"a">>), Str(<<"s">>), Str(<<"2">>)),
    Account(Str(<<"B", "_", "2">>), Str(<<"B">>), Str(<<"s">>), Str(<<"2">>)) }

(***************************************************************************)
(* The state: the parsed input, the heap of arrays, and the results of     *)
(* the calls made so far.                                                  *)
(***************************************************************************)
VARIABLES pc, input, heap, tool, imp, r1, r2

\* the state of the popup: chrome.storage.local's newapi_configs, the
\* globals savedConfigs and extractedConfigs (aliased: both name one array),
\* the extract button, the kind of the last status message, the running
\* extractAll, doImport, clearConfigs and viewSaved, and the clicks so far
VARIABLES storage, savedConfigs, extractedConfigs, aliased, extractBtnDisabled,
          status, ex, im, cl, vs, ops

\* the merge tool's scan of the pasted text: the text, and the locals of
\* extractJsonArrays
VARIABLES text, scan

\* the NEWAPI_ACCOUNTS export: the failed sites report, and the locals of
\* copyNewapiAccountsForSecret
VARIABLES failedSitesReport, secret

\* the site table: the global SITES_CONFIG (the entries in key order),
\* chrome.storage.local's sites_config, editingSiteId, the site ids of the
\* check boxes of sitesList and of the buttons of manageSitesList, the view
\* the site manager shows, and the running saveSite, deleteSite and init
VARIABLES SITES_CONFIG, sites_config, editingSiteId, sitesList, manageSitesList,
          siteFormView, sv, del, boot

\* a call of getUserInfoFromPage
VARIABLES info

callVars == <<pc, input, heap, tool, imp, r1, r2>>

scanVars == <<text, scan>>

exportVars == <<failedSitesReport, secret>>

siteVars == <<SITES_CONFIG, sites_config, editingSiteId, sitesList, manageSitesList,
              siteFormView, sv, del, boot>>

infoVars == <<info>>

popupVars == <<storage, savedConfigs, extractedConfigs, aliased, extractBtnDisabled,
               status, ex, im, cl, vs, ops>>

vars == <<callVars, popupVars, scanVars, exportVars, siteVars, infoVars>>

\* setStatus(message, type); message names the text of the message
setStatus(message, type) == [type |-> type, message |-> message]

\* results is no variable of the code: it keeps, for the properties, what
\* getSessionCookie and getUserInfoFromPage returned for the sites of this
\* run so far
ExIdle ==
  [pc |-> "idle", selected |-> <<>>, i |-> 0, provider |-> Undefined, loaded |-> <<>>,
   merged |-> <<>>, results |-> <<>>]

ImIdle == [pc |-> "idle", validConfigs |-> <<>>, loaded |-> <<>>, merged |-> <<>>]

VsIdle == [pc |-> "idle", loaded |-> <<>>]

\* extractJsonArrays before its loop: i = 0, depth = 0, start = -1, arrays = []
ScanIdle == [i |-> 0, depth |-> 0, start |-> -1, arrays |-> <<>>, done |-> FALSE]

SecretIdle == [pc |-> "idle", loaded |-> <<>>, merged |-> <<>>, placeholders |-> 0]

\* no text is being scanned and no export is running
ToolsIdle ==
  /\ text = <<>>
  /\ scan = ScanIdle
  /\ failedSitesReport = <<>>
  /\ secret = SecretIdle

NoMerge == [done |-> FALSE, result |-> <<>>, threw |-> FALSE, status |-> "none",
            duplicates |-> 0]

Wong == <<"w", "o", "n", "g">>

\* DEFAULT_SITES, the entries wong and anyrouter: site id -> provider
DEFAULT_SITES == <<[siteId |-> Wong, provider |-> Str(Wong)],
                   [siteId |-> Anyrouter, provider |-> Str(Anyrouter)]>>

\* Object.keys(table)
Keys(table) == [i \in 1..Len(table) |-> table[i].siteId]

\* table[siteId] is an entry
HasSite(table, siteId) == \E i \in 1..Len(table) : table[i].siteId = siteId

\* table[siteId]
SiteOf(table, siteId) == table[CHOOSE i \in 1..Len(table) : table[i].siteId = siteId]

Null == [t |-> "null", s |-> <<>>, n |-> 0]

\* chrome.storage.local without the key sites_config
NoSitesConfig == [k |-> "undefined", entries |-> <<>>]

\* no saveSite is running; provider is its local of that name
SvIdle == [pc |-> "idle", provider |-> <<>>]

\* no deleteSite is running; siteId is its parameter
DelIdle == [pc |-> "idle", siteId |-> <<>>]

BootIdle == [pc |-> "ready", sites |-> NoSitesConfig, configs |-> <<>>]

\* the site table as init() leaves it when no sites_config was stored, the
\* site manager closed, and no saveSite, deleteSite or init running
SitesInit ==
  /\ SITES_CONFIG = DEFAULT_SITES
  /\ sites_config = NoSitesConfig
  /\ editingSiteId = Null
  /\ sitesList = Keys(DEFAULT_SITES)
  /\ manageSitesList = <<>>
  /\ siteFormView = "closed"
  /\ sv = SvIdle
  /\ del = DelIdle
  /\ boot = BootIdle

\* { username: null, api_user: null }
NoUserInfo == [username |-> Null, api_user |-> Null]

\* no call of getUserInfoFromPage.  timeout: the version of the function
\* with the 5 seconds timer; user: the item "user" of the page's
\* localStorage; outcome is no variable of the code: it keeps, for the
\* properties, how the awaited call of chrome ended
InfoIdle ==
  [pc |-> "idle", timeout |-> FALSE,
   user |-> [kind |-> "none", username |-> Undefined, display_name |-> Undefined,
             id |-> Undefined],
   outcome |-> "none", result |-> NoUserInfo]

\* the popup as init() leaves it on a store without accounts
PopupInit ==
  /\ SitesInit
  /\ info = InfoIdle
  /\ storage = <<>>
  /\ savedConfigs = <<>>
  /\ extractedConfigs = <<>>
  /\ aliased = FALSE
  /\ extractBtnDisabled = FALSE
  /\ status = setStatus("none", "none")
  /\ ex = ExIdle
  /\ im = ImIdle
  /\ cl = "idle"
  /\ vs = VsIdle
  /\ ops = 0

NoCall == [done |-> FALSE, merged |-> "none", updated |-> 0, added |-> 0, threw |-> FALSE]

\* a call on an input built from the elements of raw and a stored list
\* built from the accounts of stored
InitWith(raw, stored) ==
  /\ pc = "start"
  /\ input \in SeqsUpTo(raw, MaxIn)
  /\ \E existing \in SeqsUpTo(stored, MaxEx) :
       heap = [savedConfigs |-> existing, validConfigs |-> <<>>, merged |-> <<>>,
               empty |-> <<>>, remerged |-> <<>>]
  /\ tool = NoMerge
  /\ imp = [done |-> FALSE, newConfigs |-> <<>>, threw |-> FALSE]
  /\ r1 = NoCall
  /\ r2 = NoCall
  /\ PopupInit
  /\ ToolsIdle

Init == InitWith(RawUniverse, StoredUniverse)

\* merge.js doMerge from allConfigs = arrays.flat() on: merged =
\* mergeConfigs(allConfigs), the error of an empty result, and the number of
\* duplicates of the success message
doMerge ==
  /\ pc = "start"
  /\ \E o \in tool_mergeConfigs(input) :
       tool' = [done |-> TRUE, result |-> o.result, threw |-> o.threw,
                status |-> IF o.threw THEN "none"
                           ELSE IF Len(o.result) = 0 THEN "error" ELSE "success",
                duplicates |-> IF o.threw \/ Len(o.result) = 0 THEN 0
                               ELSE Len(input) - Len(o.result)]
  /\ pc' = "tool"
  /\ UNCHANGED <<input, heap, imp, r1, r2, popupVars, scanVars, exportVars, siteVars, infoVars>>

\* popup.js doImport: newConfigs = JSON.parse(text), then the validation loop
doImport ==
  /\ pc = "tool"
  /\ LET st == doImport_validate(input) IN
       /\ imp' = [done |-> TRUE, newConfigs |-> st.newConfigs, threw |-> st.threw]
       /\ heap' = [heap EXCEPT !.validConfigs = st.validConfigs]
  /\ pc' = "validated"
  /\ UNCHANGED <<input, tool, r1, r2, popupVars, scanVars, exportVars, siteVars, infoVars>>

\* mergeConfigs(savedConfigs, validConfigs)
callMerge ==
  /\ pc = "validated"
  /\ ~imp.threw
  /\ \E o \in mergeConfigs(heap, "savedConfigs", "validConfigs", "merged") :
       /\ heap' = o.h
       /\ r1' = [done |-> TRUE, merged |-> o.merged, updated |-> o.updated,
                 added |-> o.added, threw |-> o.threw]
  /\ pc' = "merged"
  /\ UNCHANGED <<input, tool, imp, r2, popupVars, scanVars, exportVars, siteVars, infoVars>>

\* mergeConfigs(merged, []) on the result of the first call
callMergeAgain ==
  /\ pc = "merged"
  /\ ~r1.threw
  /\ \E o \in mergeConfigs(heap, r1.merged, "empty", "remerged") :
       /\ heap' = o.h
       /\ r2' = [done |-> TRUE, merged |-> o.merged, updated |-> o.updated,
                 added |-> o.added, threw |-> o.threw]
  /\ pc' = "remerged"
  /\ UNCHANGED <<input, tool, imp, r1, popupVars, scanVars, exportVars, siteVars, infoVars>>

Next == doMerge \/ doImport \/ callMerge \/ callMergeAgain

Spec == Init /\ [][Next]_vars

(***************************************************************************)
(* The popup.  A handler runs from one await to the next in one step.      *)
(* chrome.storage.local serves its requests in the order they are made: a  *)
(* set takes effect and a get reads when the request is made, and the      *)
(* callback that resumes the handler is a later step.                      *)
(***************************************************************************)
RECURSIVE SubSeqs(_)
SubSeqs(s) ==
  IF s = <<>> THEN {<<>>}
  ELSE LET rest == SubSeqs(Tail(s)) IN rest \cup {<<Head(s)>> \o r : r \in rest}

\* what getSelectedSites can return: the site ids of the checked boxes of
\* sitesList, in list order
Selections == SubSeqs(sitesList)

\* what getSessionCookie and getUserInfoFromPage find for a site: no session
\* cookie, a session but no api_user, or both (and no user name)
SiteResults ==
  { [session |-> Undefined, api_user |-> Undefined],
    [session |-> Str(<<"x">>), api_user |-> Undefined],
    [session |-> Str(<<"x">>), api_user |-> Str(<<"1">>)] }

\* what the import box can hold: nothing, text that is no JSON, JSON that
\* is no array, or an array
PasteUniverse ==
  { Obj(Undefined, Str(Wong), "object", Str(<<"i">>), Num(1)),
    Obj(Undefined, Undefined, "object", Str(<<"i">>), Str(<<"1">>)),
    Obj(Undefined, Str(Wong), "undefined", Undefined, Str(<<"1">>)) }

ImportTexts ==
  {[kind |-> k, arr |-> <<>>] : k \in {"empty", "syntaxError", "object"}}
    \cup {[kind |-> "array", arr |-> a] : a \in SeqsUpTo(PasteUniverse, MaxPaste)}

\* extractAll up to `await loadSavedConfigs()`
extractAll_click ==
  /\ pc = "popup" /\ ex.pc = "idle" /\ ~extractBtnDisabled /\ ops < MaxOps
  /\ boot.pc = "ready"
  /\ ops' = ops + 1
  /\ \E selectedSites \in Selections :
       IF selectedSites = <<>>
       THEN /\ status' = setStatus("selectSite", "error")
            /\ UNCHANGED <<ex, extractBtnDisabled>>
       ELSE /\ extractBtnDisabled' = TRUE
            /\ status' = setStatus("extracting", "info")
            /\ ex' = [ExIdle EXCEPT !.pc = "loading", !.selected = selectedSites,
                                    !.loaded = storage]
  /\ UNCHANGED <<storage, savedConfigs, extractedConfigs, aliased, im, cl, vs,
                 callVars, scanVars, exportVars, siteVars, infoVars>>

\* loadSavedConfigs' callback, extractedConfigs = [], and the first site up
\* to its awaits
extractAll_loaded ==
  /\ pc = "popup" /\ ex.pc = "loading"
  /\ savedConfigs' = ex.loaded
  /\ extractedConfigs' = <<>>
  /\ aliased' = FALSE
  /\ ex' = IF HasSite(SITES_CONFIG, ex.selected[1])
           THEN [ex EXCEPT !.pc = "site", !.i = 1,
                           !.provider = SiteOf(SITES_CONFIG, ex.selected[1]).provider]
           ELSE [ex EXCEPT !.pc = "threw"]
  /\ UNCHANGED <<storage, extractBtnDisabled, status, im, cl, vs, ops,
                 callVars, scanVars, exportVars, siteVars, infoVars>>

\* the awaits of site i return: the record is pushed or the site is skipped;
\* then the next site up to its awaits, or after the last site the merge up
\* to `await saveConfigs(merged)`, or the error of an empty extraction
extractAll_site ==
  /\ pc = "popup" /\ ex.pc = "site"
  /\ \E res \in SiteResults :
       LET provider == ex.provider
           next == ex.selected[ex.i + 1]
           found == Truthy(res.session) /\ Truthy(res.api_user)
           record == Account(Str(TemplateKey(provider, res.api_user)), provider,
                             res.session, res.api_user)
           pushed == IF found THEN Append(extractedConfigs, record) ELSE extractedConfigs
           savedNow == IF found /\ aliased THEN Append(savedConfigs, record)
                       ELSE savedConfigs
           exNow == [ex EXCEPT !.results = Append(@, res)]
       IN /\ extractedConfigs' = pushed
          /\ savedConfigs' = savedNow
          /\ IF ex.i < Len(ex.selected)
             THEN /\ ex' = IF HasSite(SITES_CONFIG, next)
                              THEN [exNow EXCEPT !.i = @ + 1,
                                      !.provider = SiteOf(SITES_CONFIG, next).provider]
                              ELSE [exNow EXCEPT !.pc = "threw"]
                  /\ UNCHANGED <<storage, extractBtnDisabled, status>>
             ELSE IF Len(pushed) > 0
             THEN \E o \in mergeConfigs(
                             [savedConfigs |-> savedNow, extractedConfigs |-> pushed,
                              merged |-> <<>>],
                             "savedConfigs",
                             IF aliased THEN "savedConfigs" ELSE "extractedConfigs",
                             "merged") :
                    IF o.threw
                    THEN /\ ex' = [exNow EXCEPT !.pc = "threw"]
                         /\ UNCHANGED <<storage, extractBtnDisabled, status>>
                    ELSE /\ storage' = o.h[o.merged]
                         /\ ex' = [exNow EXCEPT !.pc = "saving", !.merged = o.h[o.merged]]
                         /\ UNCHANGED <<extractBtnDisabled, status>>
             ELSE /\ status' = setStatus("nothingExtracted", "error")
                  /\ extractBtnDisabled' = FALSE
                  /\ ex' = ExIdle
                  /\ UNCHANGED storage
  /\ UNCHANGED <<aliased, im, cl, vs, ops, callVars, scanVars, exportVars, siteVars, infoVars>>

\* saveConfigs' callback and the rest of extractAll
extractAll_saved ==
  /\ pc = "popup" /\ ex.pc = "saving"
  /\ savedConfigs' = ex.merged
  /\ extractedConfigs' = ex.merged
  /\ aliased' = TRUE
  /\ status' = setStatus("extracted", "success")
  /\ extractBtnDisabled' = FALSE
  /\ ex' = ExIdle
  /\ UNCHANGED <<storage, im, cl, vs, ops, callVars, scanVars, exportVars, siteVars, infoVars>>

\* mutant: the saved configs are loaded before the text is looked at
doImport_click_loadsFirst ==
  /\ pc = "popup" /\ im.pc = "idle" /\ ops < MaxOps
  /\ ops' = ops + 1
  /\ savedConfigs' = storage
  /\ \E pasted \in ImportTexts :
       LET st == doImport_validate(pasted.arr) IN
       IF pasted.kind = "empty"
       THEN status' = setStatus("pasteJson", "error") /\ UNCHANGED im
       ELSE IF pasted.kind # "array"
       THEN status' = setStatus("jsonError", "error") /\ UNCHANGED im
       ELSE IF ~st.threw /\ st.validConfigs = <<>>
       THEN status' = setStatus("noValid", "error") /\ UNCHANGED im
       ELSE IF st.threw
       THEN UNCHANGED <<status, im>>
       ELSE /\ im' = [ImIdle EXCEPT !.pc = "loading", !.validConfigs = st.validConfigs,
                                    !.loaded = storage]
            /\ UNCHANGED status
  /\ UNCHANGED <<storage, extractedConfigs, aliased, extractBtnDisabled,
                 ex, cl, vs, callVars, scanVars, exportVars, siteVars, infoVars>>

\* doImport up to `await loadSavedConfigs()`
doImport_click ==
  /\ pc = "popup" /\ im.pc = "idle" /\ ops < MaxOps
  /\ ops' = ops + 1
  /\ \E pasted \in ImportTexts :
       LET st == doImport_validate(pasted.arr) IN
       IF pasted.kind = "empty"
       THEN status' = setStatus("pasteJson", "error") /\ UNCHANGED im
       ELSE IF pasted.kind # "array"
       THEN status' = setStatus("jsonError", "error") /\ UNCHANGED im
       ELSE IF ~st.threw /\ st.validConfigs = <<>>
       THEN status' = setStatus("noValid", "error") /\ UNCHANGED im
       ELSE IF st.threw
       THEN UNCHANGED <<status, im>>
       ELSE /\ im' = [ImIdle EXCEPT !.pc = "loading", !.validConfigs = st.validConfigs,
                                    !.loaded = storage]
            /\ UNCHANGED status
  /\ UNCHANGED <<storage, savedConfigs, extractedConfigs, aliased, extractBtnDisabled,
                 ex, cl, vs, callVars, scanVars, exportVars, siteVars, infoVars>>

\* loadSavedConfigs' callback and the merge, up to `await saveConfigs(merged)`
doImport_loaded ==
  /\ pc = "popup" /\ im.pc = "loading"
  /\ savedConfigs' = im.loaded
  /\ aliased' = FALSE
  /\ \E o \in mergeConfigs([savedConfigs |-> im.loaded, validConfigs |-> im.validConfigs,
                            merged |-> <<>>],
                           "savedConfigs", "validConfigs", "merged") :
       IF o.threw
       THEN im' = ImIdle /\ UNCHANGED storage
       ELSE /\ storage' = o.h[o.merged]
            /\ im' = [im EXCEPT !.pc = "saving", !.merged = o.h[o.merged]]
  /\ UNCHANGED <<extractedConfigs, extractBtnDisabled, status, ex, cl, vs, ops,
                 callVars, scanVars, exportVars, siteVars, infoVars>>

\* saveConfigs' callback and the rest of doImport
doImport_saved ==
  /\ pc = "popup" /\ im.pc = "saving"
  /\ savedConfigs' = im.merged
  /\ extractedConfigs' = im.merged
  /\ aliased' = TRUE
  /\ status' = setStatus("imported", "success")
  /\ im' = ImIdle
  /\ UNCHANGED <<storage, extractBtnDisabled, ex, cl, vs, ops, callVars, scanVars, exportVars, siteVars, infoVars>>

\* clearConfigs, confirmed, up to `await saveConfigs([])`
clearConfigs_click ==
  /\ pc = "popup" /\ cl = "idle" /\ ops < MaxOps
  /\ ops' = ops + 1
  /\ storage' = <<>>
  /\ cl' = "saving"
  /\ UNCHANGED <<savedConfigs, extractedConfigs, aliased, extractBtnDisabled, status,
                 ex, im, vs, callVars, scanVars, exportVars, siteVars, infoVars>>

\* saveConfigs' callback and the rest of clearConfigs
clearConfigs_saved ==
  /\ pc = "popup" /\ cl = "saving"
  /\ savedConfigs' = <<>>
  /\ extractedConfigs' = <<>>
  /\ aliased' = FALSE
  /\ status' = setStatus("cleared", "info")
  /\ cl' = "idle"
  /\ UNCHANGED <<storage, extractBtnDisabled, ex, im, vs, ops, callVars, scanVars, exportVars, siteVars, infoVars>>

\* viewSaved up to `await loadSavedConfigs()`
viewSaved_click ==
  /\ pc = "popup" /\ vs.pc = "idle" /\ ops < MaxOps
  /\ ops' = ops + 1
  /\ vs' = [pc |-> "loading", loaded |-> storage]
  /\ UNCHANGED <<storage, savedConfigs, extractedConfigs, aliased, extractBtnDisabled,
                 status, ex, im, cl, callVars, scanVars, exportVars, siteVars, infoVars>>

\* loadSavedConfigs' callback and the rest of viewSaved
viewSaved_loaded ==
  /\ pc = "popup" /\ vs.pc = "loading"
  /\ savedConfigs' = vs.loaded
  /\ IF vs.loaded = <<>>
     THEN /\ aliased' = FALSE
          /\ status' = setStatus("noSaved", "info")
          /\ UNCHANGED extractedConfigs
     ELSE /\ aliased' = TRUE
          /\ status' = setStatus("saved", "info")
          /\ extractedConfigs' = vs.loaded
  /\ vs' = VsIdle
  /\ UNCHANGED <<storage, extractBtnDisabled, ex, im, cl, ops, callVars, scanVars, exportVars, siteVars, infoVars>>

InitPopup ==
  /\ pc = "popup"
  /\ input = <<>>
  /\ heap = [savedConfigs |-> <<>>, validConfigs |-> <<>>, merged |-> <<>>,
             empty |-> <<>>, remerged |-> <<>>]
  /\ tool = NoMerge
  /\ imp = [done |-> FALSE, newConfigs |-> <<>>, threw |-> FALSE]
  /\ r1 = NoCall
  /\ r2 = NoCall
  /\ PopupInit
  /\ ToolsIdle

NextPopup ==
  \/ extractAll_click \/ extractAll_loaded \/ extractAll_site \/ extractAll_saved
  \/ doImport_click \/ doImport_loaded \/ doImport_saved
  \/ clearConfigs_click \/ clearConfigs_saved
  \/ viewSaved_click \/ viewSaved_loaded

SpecPopup == InitPopup /\ [][NextPopup]_vars

(***************************************************************************)
(* The merge tool's scan of a pasted text, one character of the for loop   *)
(* of extractJsonArrays in a step.                                         *)
(***************************************************************************)
TextAlphabet == {"[", "]", ",", "1"}

InitScan ==
  /\ pc = "scan"
  /\ text \in SeqsUpTo(TextAlphabet, MaxText)
  /\ scan = ScanIdle
  /\ failedSitesReport = <<>>
  /\ secret = SecretIdle
  /\ input = <<>>
  /\ heap = [savedConfigs |-> <<>>, validConfigs |-> <<>>, merged |-> <<>>,
             empty |-> <<>>, remerged |-> <<>>]
  /\ tool = NoMerge
  /\ imp = [done |-> FALSE, newConfigs |-> <<>>, threw |-> FALSE]
  /\ r1 = NoCall
  /\ r2 = NoCall
  /\ PopupInit

\* one pass of the for loop
extractJsonArrays_char ==
  /\ pc = "scan" /\ ~scan.done /\ scan.i < Len(text)
  /\ scan' = extractJsonArrays_body(scan, text)
  /\ UNCHANGED <<text, failedSitesReport, secret, callVars, popupVars, siteVars, infoVars>>

\* return arrays
extractJsonArrays_return ==
  /\ pc = "scan" /\ ~scan.done /\ scan.i = Len(text)
  /\ scan' = [scan EXCEPT !.done = TRUE]
  /\ UNCHANGED <<text, failedSitesReport, secret, callVars, popupVars, siteVars, infoVars>>

NextScan == extractJsonArrays_char \/ extractJsonArrays_return

SpecScan == InitScan /\ [][NextScan]_vars

(***************************************************************************)
(* The NEWAPI_ACCOUNTS export on a store and a failed sites report that    *)
(* earlier runs have left.                                                 *)
(***************************************************************************)
\* accounts of the store
ExportSaved ==
  { Account(Str(<<"n">>), Str(Anyrouter), Str(<<"x">>), Str(<<"1">>)),
    Account(Str(<<"m">>), Str(Anyrouter), Str(<<"y">>), Str(<<"2">>)),
    Account(Str(<<"w">>), Str(Wong), Str(<<"x">>), Str(<<"1">>)) }

\* entries of failed_sites: anyrouter with an api_user (a string, a number,
\* blanks around the provider), anyrouter without api_user, another
\* provider, and no provider
FailedUniverse ==
  { [provider |-> Str(Anyrouter), api_user |-> Str(<<"1">>), account_name |-> Undefined],
    [provider |-> Str(<<" ">> \o Anyrouter \o <<" ">>), api_user |-> Num(2),
     account_name |-> Str(<<"f">>)],
    [provider |-> Str(Anyrouter), api_user |-> Undefined, account_name |-> Undefined],
    [provider |-> Str(Wong), api_user |-> Str(<<"1">>), account_name |-> Undefined],
    [provider |-> Undefined, api_user |-> Str(<<"1">>), account_name |-> Undefined] }

InitExport ==
  /\ pc = "export"
  /\ storage \in SeqsUpTo(ExportSaved, MaxFailed)
  /\ failedSitesReport \in SeqsUpTo(FailedUniverse, MaxFailed)
  /\ secret = SecretIdle
  /\ text = <<>>
  /\ scan = ScanIdle
  /\ savedConfigs = <<>>
  /\ extractedConfigs = <<>>
  /\ aliased = FALSE
  /\ extractBtnDisabled = FALSE
  /\ status = setStatus("none", "none")
  /\ ex = ExIdle
  /\ im = ImIdle
  /\ cl = "idle"
  /\ vs = VsIdle
  /\ ops = 0
  /\ SitesInit
  /\ info = InfoIdle
  /\ input = <<>>
  /\ heap = [savedConfigs |-> <<>>, validConfigs |-> <<>>, merged |-> <<>>,
             empty |-> <<>>, remerged |-> <<>>]
  /\ tool = NoMerge
  /\ imp = [done |-> FALSE, newConfigs |-> <<>>, threw |-> FALSE]
  /\ r1 = NoCall
  /\ r2 = NoCall

\* copyNewapiAccountsForSecret up to `await loadSavedConfigs()`
copyNewapiAccountsForSecret_click ==
  /\ pc = "export" /\ secret.pc = "idle"
  /\ secret' = [secret EXCEPT !.pc = "loading", !.loaded = storage]
  /\ UNCHANGED <<failedSitesReport, scanVars, callVars, popupVars, siteVars, infoVars>>

\* loadSavedConfigs' callback and the rest of copyNewapiAccountsForSecret
copyNewapiAccountsForSecret_loaded ==
  /\ pc = "export" /\ secret.pc = "loading"
  /\ savedConfigs' = secret.loaded
  /\ aliased' = FALSE
  /\ \E o \in copyNewapiAccounts_merged(secret.loaded, failedSitesReport) :
       IF o.threw
       THEN secret' = [secret EXCEPT !.pc = "threw"] /\ UNCHANGED status
       ELSE IF Len(o.arr) = 0
       THEN /\ secret' = [secret EXCEPT !.pc = "done"]
            /\ status' = setStatus("nothingToExport", "error")
       ELSE /\ secret' =
                 [secret EXCEPT
                    !.pc = "done",
                    !.merged = o.arr,
                    !.placeholders =
                       Cardinality({i \in 1..Len(o.arr) :
                                      /\ Len(JsToString(o.arr[i].session)) >= Len(REPLACE_ME)
                                      /\ SubSeq(JsToString(o.arr[i].session), 1,
                                                Len(REPLACE_ME)) = REPLACE_ME})]
            /\ status' = setStatus("copied", "success")
  /\ UNCHANGED <<storage, extractedConfigs, extractBtnDisabled, ex, im, cl, vs, ops,
                 failedSitesReport, scanVars, callVars, siteVars, infoVars>>

NextExport == copyNewapiAccountsForSecret_click \/ copyNewapiAccountsForSecret_loaded

SpecExport == InitExport /\ [][NextExport]_vars

(***************************************************************************)
(* The calls of Spec on records whose providers differ in letter case.     *)
(***************************************************************************)
CaseUniverse ==
  { Obj(Undefined, Str(<<"a">>), "object", Str(<<"s">>), Str(<<"1">>)),
    Obj(Undefined, Str(<<"A">>), "object", Str(<<"t">>), Str(<<"1">>)),
    Obj(Undefined, Str(<<"b">>), "object", Str(<<"s">>), Num(2)),
    Obj(Undefined, Str(<<"B">>), "object", Str(<<"t">>), Str(<<"2">>)) }

CaseStored ==
  { Account(Str(<<"A", "_", "1">>), Str(<<"A">>), Str(<<"o", "l", "d">>), Str(<<"1">>)),
    Account(Str(<<"a", "_", "1">>), Str(<<"a">>), Str(<<"o", "l", "d">>), Str(<<"1">>)),
    Account(Str(<<"B", "_", "2">>), Str(<<"B">>), Str(<<"o", "l", "d">>), Str(<<"2">>)) }

InitCase == InitWith(CaseUniverse, CaseStored)

SpecCase == InitCase /\ [][Next]_vars

(***************************************************************************)
(* The calls of Spec on records whose provider or api_user holds the       *)
(* character "_" of the identity key.                                      *)
(***************************************************************************)
KeyUniverse ==
  { Obj(Undefined, Str(<<"a", "_", "b">>), "object", Str(<<"s">>), Str(<<"1">>)),
    Obj(Undefined, Str(<<"a">>), "object", Str(<<"t">>), Str(<<"b", "_", "1">>)),
    Obj(Undefined, Str(<<"a">>), "object", Str(<<"s">>), Num(1)) }

KeyStored ==
  { Account(Str(<<"a", "_", "b", "_", "1">>), Str(<<"a", "_", "b">>), Str(<<"o", "l", "d">>),
            Str(<<"1">>)),
    Account(Str(<<"a", "_", "2">>), Str(<<"a">>), Str(<<"o", "l", "d">>), Str(<<"2">>)) }

InitKey == InitWith(KeyUniverse, KeyStored)

SpecKey == InitKey /\ [][Next]_vars

(***************************************************************************)
(* The site manager and the opening of the popup.  SITES_CONFIG is an      *)
(* object: an assignment to a key it has keeps the place of the key, an    *)
(* assignment to a new key appends it.  A set of sites_config takes effect *)
(* when it is requested, as for newapi_configs.  The two gets of init are   *)
(* answered before the first click on the page of the popup.               *)
(***************************************************************************)
toLowerCase(str) == [i \in 1..Len(str) |-> Lower(str[i])]

\* what the provider field of the site form can hold
ProviderInputs == {<<>>, Wong, <<" ", "B">>}

\* SITES_CONFIG[siteKey] = { name, provider: siteKey, domain, url }
assignSite(table, siteKey) ==
  IF HasSite(table, siteKey)
  THEN [i \in 1..Len(table) |->
          IF table[i].siteId = siteKey THEN [siteId |-> siteKey, provider |-> Str(siteKey)]
          ELSE table[i]]
  ELSE Append(table, [siteId |-> siteKey, provider |-> Str(siteKey)])

\* mutant: the entry stays
deleteKey_none(table, siteId) == table

\* delete SITES_CONFIG[siteId]
deleteKey(table, siteId) == SelectSeq(table, LAMBDA e : e.siteId # siteId)

\* manageSitesBtn: showSitesList and renderManageSitesList
openSiteManager ==
  /\ pc = "popup" /\ siteFormView = "closed" /\ boot.pc = "ready"
  /\ siteFormView' = "list"
  /\ manageSitesList' = Keys(SITES_CONFIG)
  /\ UNCHANGED <<SITES_CONFIG, sites_config, editingSiteId, sitesList, sv, del, boot,
                 callVars, popupVars, scanVars, exportVars, infoVars>>

\* closeModalBtn, or a click beside the modal
closeSiteManager ==
  /\ pc = "popup" /\ siteFormView # "closed"
  /\ siteFormView' = "closed"
  /\ editingSiteId' = Null
  /\ UNCHANGED <<SITES_CONFIG, sites_config, sitesList, manageSitesList, sv, del, boot,
                 callVars, popupVars, scanVars, exportVars, infoVars>>

\* addSiteBtn (siteId null) or an edit button of manageSitesList: the form
\* in edit mode when the site is in SITES_CONFIG, else in add mode
showSiteForm ==
  /\ pc = "popup" /\ siteFormView = "list"
  /\ \E siteId \in {Null} \cup {Str(manageSitesList[i]) : i \in 1..Len(manageSitesList)} :
       /\ editingSiteId' = siteId
       /\ siteFormView' = IF Truthy(siteId) /\ HasSite(SITES_CONFIG, siteId.s)
                          THEN "edit" ELSE "add"
  /\ UNCHANGED <<SITES_CONFIG, sites_config, sitesList, manageSitesList, sv, del, boot,
                 callVars, popupVars, scanVars, exportVars, infoVars>>

\* cancelFormBtn
showSitesList ==
  /\ pc = "popup" /\ siteFormView \in {"add", "edit"}
  /\ siteFormView' = "list"
  /\ UNCHANGED <<SITES_CONFIG, sites_config, editingSiteId, sitesList, manageSitesList,
                 sv, del, boot, callVars, popupVars, scanVars, exportVars, infoVars>>

\* saveSite up to `await saveSitesConfig()`; in edit mode the provider field
\* is disabled and holds the provider of the site
saveSite_click ==
  /\ pc = "popup" /\ siteFormView \in {"add", "edit"} /\ sv.pc = "idle" /\ ops < MaxOps
  /\ ops' = ops + 1
  /\ \E filled \in BOOLEAN, typed \in ProviderInputs :
       LET provider == toLowerCase(trim(IF siteFormView = "edit" THEN editingSiteId.s
                                        ELSE typed))
           siteKey == IF Truthy(editingSiteId) THEN editingSiteId.s ELSE provider
       IN IF ~filled \/ provider = <<>>
          THEN UNCHANGED <<SITES_CONFIG, sites_config, sv>>
          ELSE IF ~Truthy(editingSiteId) /\ HasSite(SITES_CONFIG, provider)
          THEN UNCHANGED <<SITES_CONFIG, sites_config, sv>>
          ELSE /\ SITES_CONFIG' = assignSite(SITES_CONFIG, siteKey)
               /\ sites_config' = [k |-> "object", entries |-> SITES_CONFIG']
               /\ sv' = [pc |-> "saving", provider |-> provider]
  /\ UNCHANGED <<editingSiteId, sitesList, manageSitesList, siteFormView, del, boot,
                 storage, savedConfigs, extractedConfigs, aliased, extractBtnDisabled,
                 status, ex, im, cl, vs, callVars, scanVars, exportVars, infoVars>>

\* saveSitesConfig's callback and the rest of saveSite
saveSite_saved ==
  /\ pc = "popup" /\ sv.pc = "saving"
  /\ sitesList' = Keys(SITES_CONFIG)
  /\ manageSitesList' = Keys(SITES_CONFIG)
  /\ siteFormView' = IF siteFormView = "closed" THEN "closed" ELSE "list"
  /\ status' = setStatus("siteSaved", "success")
  /\ sv' = SvIdle
  /\ UNCHANGED <<SITES_CONFIG, sites_config, editingSiteId, del, boot,
                 storage, savedConfigs, extractedConfigs, aliased, extractBtnDisabled,
                 ex, im, cl, vs, ops, callVars, scanVars, exportVars, infoVars>>

\* a delete button of manageSitesList: deleteSite up to
\* `await saveSitesConfig()`
deleteSite_click ==
  /\ pc = "popup" /\ siteFormView = "list" /\ del.pc = "idle" /\ ops < MaxOps
  /\ ops' = ops + 1
  /\ \E i \in 1..Len(manageSitesList), confirmed \in BOOLEAN :
       IF ~HasSite(SITES_CONFIG, manageSitesList[i]) \/ ~confirmed
       THEN UNCHANGED <<SITES_CONFIG, sites_config, del>>
       ELSE /\ SITES_CONFIG' = deleteKey(SITES_CONFIG, manageSitesList[i])
            /\ sites_config' = [k |-> "object", entries |-> SITES_CONFIG']
            /\ del' = [pc |-> "saving", siteId |-> manageSitesList[i]]
  /\ UNCHANGED <<editingSiteId, sitesList, manageSitesList, siteFormView, sv, boot,
                 storage, savedConfigs, extractedConfigs, aliased, extractBtnDisabled,
                 status, ex, im, cl, vs, callVars, scanVars, exportVars, infoVars>>

\* saveSitesConfig's callback and the rest of deleteSite
deleteSite_saved ==
  /\ pc = "popup" /\ del.pc = "saving"
  /\ sitesList' = Keys(SITES_CONFIG)
  /\ manageSitesList' = Keys(SITES_CONFIG)
  /\ status' = setStatus("siteDeleted", "info")
  /\ del' = DelIdle
  /\ UNCHANGED <<SITES_CONFIG, sites_config, editingSiteId, siteFormView, sv, boot,
                 storage, savedConfigs, extractedConfigs, aliased, extractBtnDisabled,
                 ex, im, cl, vs, ops, callVars, scanVars, exportVars, infoVars>>

\* the popup is opened again: the script starts anew, with its globals and
\* its page as they are at the top of the file, and runs init up to the get
\* of loadSitesConfig; what the closed popup was running is gone
init ==
  /\ pc = "popup" /\ ops < MaxOps
  /\ ops' = ops + 1
  /\ SITES_CONFIG' = DEFAULT_SITES
  /\ editingSiteId' = Null
  /\ sitesList' = <<>>
  /\ manageSitesList' = <<>>
  /\ siteFormView' = "closed"
  /\ sv' = SvIdle
  /\ del' = DelIdle
  /\ boot' = [BootIdle EXCEPT !.pc = "loadingSites", !.sites = sites_config]
  /\ savedConfigs' = <<>>
  /\ extractedConfigs' = <<>>
  /\ aliased' = FALSE
  /\ extractBtnDisabled' = FALSE
  /\ status' = setStatus("none", "none")
  /\ ex' = ExIdle
  /\ im' = ImIdle
  /\ cl' = "idle"
  /\ vs' = VsIdle
  /\ UNCHANGED <<sites_config, storage, callVars, scanVars, exportVars, infoVars>>

\* loadSitesConfig's callback, renderSitesList, and init up to the get of
\* loadSavedConfigs
init_sitesLoaded ==
  /\ pc = "popup" /\ boot.pc = "loadingSites"
  /\ SITES_CONFIG' = IF boot.sites.k = "object" /\ Len(Keys(boot.sites.entries)) > 0
                     THEN boot.sites.entries
                     ELSE DEFAULT_SITES
  /\ sitesList' = Keys(SITES_CONFIG')
  /\ boot' = [boot EXCEPT !.pc = "loadingConfigs", !.configs = storage]
  /\ UNCHANGED <<sites_config, editingSiteId, manageSitesList, siteFormView, sv, del,
                 callVars, popupVars, scanVars, exportVars, infoVars>>

\* loadSavedConfigs' callback and the rest of init
init_configsLoaded ==
  /\ pc = "popup" /\ boot.pc = "loadingConfigs"
  /\ savedConfigs' = boot.configs
  /\ aliased' = FALSE
  /\ status' = IF Len(boot.configs) > 0 THEN setStatus("savedCount", "info") ELSE status
  /\ boot' = BootIdle
  /\ UNCHANGED <<SITES_CONFIG, sites_config, editingSiteId, sitesList, manageSitesList,
                 siteFormView, sv, del, storage, extractedConfigs, extractBtnDisabled,
                 ex, im, cl, vs, ops, callVars, scanVars, exportVars, infoVars>>

NextSites ==
  \/ extractAll_click \/ extractAll_loaded \/ extractAll_site \/ extractAll_saved
  \/ openSiteManager \/ closeSiteManager \/ showSiteForm \/ showSitesList
  \/ saveSite_click \/ saveSite_saved \/ deleteSite_click \/ deleteSite_saved
  \/ init \/ init_sitesLoaded \/ init_configsLoaded

SpecSites == InitPopup /\ [][NextSites]_vars

\* the replies of chrome.storage, chrome.cookies and getUserInfoFromPage that
\* extractAll awaits arrive, and its continuation then runs
SpecSitesFair ==
  /\ SpecSites
  /\ WF_vars(extractAll_loaded) /\ WF_vars(extractAll_site) /\ WF_vars(extractAll_saved)

(***************************************************************************)
(* getUserInfoFromPage(domain) and the lines of extractAll that use its    *)
(* result.                                                                 *)
(***************************************************************************)
\* what localStorage.getItem("user") of the page can be: nothing, a text
\* that is no JSON, the text null, or an object
UserItems ==
  {[kind |-> k, username |-> Undefined, display_name |-> Undefined, id |-> Undefined] :
     k \in {"none", "badJson", "null"}}
    \cup {[kind |-> "object", username |-> u, display_name |-> d, id |-> i] :
            u \in {Undefined, Str(<<"u">>)}, d \in {Undefined, Str(<<"d">>)},
            i \in {Undefined, Num(0), Num(7), Str(<<"7">>)}}

\* the function executeScript runs in the page
pageFunc(user) ==
  IF user.kind # "object" THEN NoUserInfo
  ELSE [username |-> IF Truthy(user.username) THEN user.username
                     ELSE IF Truthy(user.display_name) THEN user.display_name
                     ELSE Null,
        api_user |-> IF Truthy(user.id) THEN Str(JsToString(user.id)) ELSE Null]

\* how `await chrome.tabs.query(...)` can end
QueryOutcomes == {"queryRejected", "noTab", "tab"}

\* how `await Promise.race([scriptPromise, timeoutPromise])` (without the
\* timer: `await chrome.scripting.executeScript(...)`) can end: the script
\* rejects, the timer wins, or results is undefined, [], a frame without
\* result, or a frame with the result of the function
RaceOutcomes(timeout) ==
  {"scriptRejected", "noResults", "emptyResults", "nullResult", "result"}
    \cup (IF timeout THEN {"timeout"} ELSE {})

\* getUserInfoFromPage up to `await chrome.tabs.query(...)`
getUserInfoFromPage_call ==
  /\ pc = "info" /\ info.pc = "idle"
  /\ info' = [info EXCEPT !.pc = "query"]
  /\ UNCHANGED <<callVars, popupVars, scanVars, exportVars, siteVars>>

\* the query has ended: the function rejects, returns for want of a tab, or
\* goes on to its await of the script
getUserInfoFromPage_queried ==
  /\ pc = "info" /\ info.pc = "query"
  /\ \E o \in QueryOutcomes :
       info' = [info EXCEPT !.outcome = o,
                            !.pc = CASE o = "queryRejected" -> "threw"
                                     [] o = "noTab" -> "returned"
                                     [] OTHER -> "race"]
  /\ UNCHANGED <<callVars, popupVars, scanVars, exportVars, siteVars>>

\* the race has ended: `results[0]?.result || {...}`, or the catch
getUserInfoFromPage_settled ==
  /\ pc = "info" /\ info.pc = "race"
  /\ \E o \in RaceOutcomes(info.timeout) :
       info' = [info EXCEPT !.outcome = o, !.pc = "returned",
                            !.result = IF o = "result" THEN pageFunc(info.user)
                                       ELSE NoUserInfo]
  /\ UNCHANGED <<callVars, popupVars, scanVars, exportVars, siteVars>>

\* extractAll after `await getUserInfoFromPage(domain)`: the site is left
\* out when api_user is missing, else its record is pushed; a rejection
\* ends extractAll
extractAll_userInfo ==
  /\ pc = "info" /\ info.pc \in {"returned", "threw"}
  /\ info' = [info EXCEPT !.pc = IF info.pc = "threw" THEN "extractAllThrew"
                                 ELSE IF ~Truthy(info.result.api_user) THEN "continue"
                                 ELSE "pushed"]
  /\ UNCHANGED <<callVars, popupVars, scanVars, exportVars, siteVars>>

InitUserInfo ==
  /\ pc = "info"
  /\ info \in {[InfoIdle EXCEPT !.timeout = t, !.user = u] : t \in BOOLEAN, u \in UserItems}
  /\ input = <<>>
  /\ heap = [savedConfigs |-> <<>>, validConfigs |-> <<>>, merged |-> <<>>,
             empty |-> <<>>, remerged |-> <<>>]
  /\ tool = NoMerge
  /\ imp = [done |-> FALSE, newConfigs |-> <<>>, threw |-> FALSE]
  /\ r1 = NoCall
  /\ r2 = NoCall
  /\ storage = <<>> /\ savedConfigs = <<>> /\ extractedConfigs = <<>>
  /\ aliased = FALSE /\ extractBtnDisabled = FALSE
  /\ status = setStatus("none", "none")
  /\ ex = ExIdle /\ im = ImIdle /\ cl = "idle" /\ vs = VsIdle /\ ops = 0
  /\ SitesInit
  /\ ToolsIdle

NextUserInfo ==
  \/ getUserInfoFromPage_call \/ getUserInfoFromPage_queried
  \/ getUserInfoFromPage_settled \/ extractAll_userInfo

SpecUserInfo == InitUserInfo /\ [][NextUserInfo]_vars

(***************************************************************************)
(* Properties.                                                             *)
(***************************************************************************)
Range(arr) == {arr[i] : i \in 1..Len(arr)}

KeyOf(c) == TemplateKey(c.provider, c.api_user)

\* the first call returned / the merge tool returned
Returned1 == r1.done /\ ~r1.threw

ReturnedTool == tool.done /\ ~tool.threw

Merged1 == heap[r1.merged]

NoTwoSamePair(arr) ==
  \A i, j \in 1..Len(arr) :
    i < j => ~(arr[i].provider = arr[j].provider /\ arr[i].api_user = arr[j].api_user)

\* C1: whatever existing and incoming are, the merged sequence (of a call
\* on given arrays, of the merge tool, and of the calls extractAll and
\* doImport make) holds no two records with the same (provider, api_user)
\* pair.
C1_Uniqueness ==
  /\ Returned1 => NoTwoSamePair(Merged1)
  /\ ReturnedTool => NoTwoSamePair(tool.result)
  /\ ex.pc = "saving" => NoTwoSamePair(ex.merged)
  /\ im.pc = "saving" => NoTwoSamePair(im.merged)

\* UTF-16 code unit order of the characters, the order of the < operator on
\* strings
CodeUnitOrder ==
  <<"0", "1", "2", "3", "4", "5", "6", "7", "8", "9", "A", "B", "_",
    "a", "b", "c", "d", "e", "f", "g", "i", "l", "n", "o", "r", "s", "t", "u", "w", "x", "y">>

CodeUnit(c) == CHOOSE i \in 1..Len(CodeUnitOrder) : CodeUnitOrder[i] = c

LexicographicCompare(x, y) ==
  LexCompare([i \in 1..Len(x) |-> CodeUnit(x[i])], [i \in 1..Len(y) |-> CodeUnit(y[i])])

LexicographicNonDecreasing(arr) ==
  \A i \in 1..(Len(arr) - 1) :
    LexicographicCompare(JsToString(arr[i].provider), JsToString(arr[i + 1].provider)) <= 0

LocaleNonDecreasing(arr) ==
  \A i \in 1..(Len(arr) - 1) :
    localeCompare(JsToString(arr[i].provider), JsToString(arr[i + 1].provider)) <= 0

\* C2 as claimed: the providers of consecutive records of the returned
\* sequence are non-decreasing under lexicographic (character by character)
\* comparison.
C2_SortedLexicographic ==
  /\ Returned1 => LexicographicNonDecreasing(Merged1)
  /\ ReturnedTool => LexicographicNonDecreasing(tool.result)

\* C2 as amended: the providers of consecutive records of the returned
\* sequence are non-decreasing under the collation of localeCompare,
\* whatever the order of existing and incoming.
C2_SortedByLocaleCompare ==
  /\ Returned1 => LocaleNonDecreasing(Merged1)
  /\ ReturnedTool => LocaleNonDecreasing(tool.result)

\* both merges returned two or more records, and the working collection of
\* the popup merge (existing followed by the new keys) was out of order
C2_Witness ==
  /\ Returned1 /\ Len(Merged1) >= 2
  /\ ReturnedTool /\ Len(tool.result) >= 2
  /\ ~LocaleNonDecreasing(heap.savedConfigs \o heap.validConfigs)
  /\ ~LocaleNonDecreasing(heap.validConfigs)

\* a value is missing when it is absent or the empty string
Missing(v) == v.t = "undefined" \/ (v.t = "string" /\ v.s = <<>>)

\* element c lacks a non-empty session or a non-empty api_user
Lacks(c) ==
  \/ c.k # "object"
  \/ c.cookies # "object"
  \/ Missing(c.session)
  \/ Missing(c.api_user)

LackingIndices == {i \in 1..Len(input) : Lacks(input[i])}

HasSessionAndUser(c) == ~Missing(c.session) /\ ~Missing(c.api_user)

\* some record of arr carries the session and the api_user of element c
Carries(arr, c) ==
  \E o \in Range(arr) :
    /\ o.session = (IF c.cookies = "object" THEN c.session ELSE Undefined)
    /\ JsToString(o.api_user) = JsToString(c.api_user)

\* C3: a record without a non-empty session or without a non-empty api_user
\* is in no merge output, and counts neither as added nor as updated.
C3_DropRule ==
  /\ Returned1 =>
       /\ \A o \in Range(Merged1) : HasSessionAndUser(o)
       /\ \A i \in LackingIndices : ~Carries(Merged1, input[i])
       /\ r1.updated + r1.added <= Len(input) - Cardinality(LackingIndices)
  /\ ReturnedTool =>
       /\ \A o \in Range(tool.result) : HasSessionAndUser(o)
       /\ \A i \in LackingIndices : ~Carries(tool.result, input[i])
       /\ Len(tool.result) <= Len(input) - Cardinality(LackingIndices)

\* both merges returned on an input holding a lacking and a complete element
C3_Witness ==
  /\ Returned1 /\ ReturnedTool
  /\ LackingIndices # {} /\ LackingIndices # 1..Len(input)
  /\ r1.updated + r1.added > 0

\* the keys of the working collection when incoming record i is reached
KeysBefore(existing, incoming, i) ==
  {KeyOf(c) : c \in Range(existing)} \cup {KeyOf(incoming[j]) : j \in 1..(i - 1)}

UpdateIndices(existing, incoming) ==
  {i \in 1..Len(incoming) : KeyOf(incoming[i]) \in KeysBefore(existing, incoming, i)}

AddIndices(existing, incoming) ==
  {i \in 1..Len(incoming) : KeyOf(incoming[i]) \notin KeysBefore(existing, incoming, i)}

\* the last record of incoming with the key of record i
LastWithKey(incoming, i) ==
  LET same == {j \in 1..Len(incoming) : KeyOf(incoming[j]) = KeyOf(incoming[i])}
  IN incoming[CHOOSE j \in same : \A l \in same : l <= j]

\* C4: an incoming record whose key is in the working collection leaves
\* exactly one record of that key in the output, which is the last incoming
\* record of that key; each such record counts as one update and no add.
C4_LastWriteWins ==
  Returned1 =>
    LET existing == heap.savedConfigs
        incoming == heap.validConfigs
    IN /\ \A i \in UpdateIndices(existing, incoming) :
            \E j \in 1..Len(Merged1) :
              /\ Merged1[j] = LastWithKey(incoming, i)
              /\ \A l \in 1..Len(Merged1) :
                   KeyOf(Merged1[l]) = KeyOf(incoming[i]) => l = j
       /\ r1.updated = Cardinality(UpdateIndices(existing, incoming))
       /\ r1.added = Len(incoming) - Cardinality(UpdateIndices(existing, incoming))

\* C5 as claimed: an incoming record whose key is not in the working
\* collection is itself in the output and counts as one add and no update.
C5_AddAppears ==
  Returned1 =>
    LET existing == heap.savedConfigs
        incoming == heap.validConfigs
    IN /\ \A i \in AddIndices(existing, incoming) : incoming[i] \in Range(Merged1)
       /\ r1.added = Cardinality(AddIndices(existing, incoming))
       /\ r1.updated = Len(incoming) - Cardinality(AddIndices(existing, incoming))

\* C5 as amended: an incoming record whose key is not in the working
\* collection counts as one add and no update, and the output holds it, or
\* the last incoming record of its key when later records replace it; one
\* valid record merged into an empty list gives that one normalized record,
\* one add and no update.
C5_Add ==
  Returned1 =>
    LET existing == heap.savedConfigs
        incoming == heap.validConfigs
    IN /\ \A i \in AddIndices(existing, incoming) :
            LastWithKey(incoming, i) \in Range(Merged1)
       /\ r1.added = Cardinality(AddIndices(existing, incoming))
       /\ r1.updated = Len(incoming) - Cardinality(AddIndices(existing, incoming))
       /\ Len(Merged1) = Len(existing) + r1.added
       /\ (existing = <<>> /\ Len(incoming) = 1) =>
            Merged1 = incoming /\ r1.added = 1 /\ r1.updated = 0

\* a record of a new key was added next to records that were updated
C5_Witness ==
  /\ Returned1
  /\ r1.added >= 1 /\ r1.updated >= 1
  /\ heap.savedConfigs # <<>>

\* C6: merging the result of a merge with an empty incoming sequence gives
\* the same records in the same order, and counts no update and no add.
C6_Idempotence ==
  (r2.done /\ ~r2.threw) =>
    /\ heap[r2.merged] = Merged1
    /\ r2.updated = 0
    /\ r2.added = 0

\* the second merge returned a list with two records of one provider that
\* the first merge had built from both existing and incoming records
C6_Witness ==
  /\ r2.done /\ ~r2.threw
  /\ r1.added >= 1
  /\ \E i \in 1..(Len(Merged1) - 1) : Merged1[i].provider = Merged1[i + 1].provider

\* the arrays of the heap other than the one at ref are the same in both
\* states of the step
OthersUnchanged(ref) ==
  \A x \in DOMAIN heap : x # ref => heap'[x] = heap[x]

\* C8: a call of mergeConfigs leaves the existing array, the incoming array
\* and every other array but its own result as they were.
C8_NoSideEffects ==
  [][/\ (pc = "validated" /\ pc' = "merged") => OthersUnchanged("merged")
     /\ (pc = "merged" /\ pc' = "remerged") => OthersUnchanged("remerged")]_vars

\* a call returned after it replaced, appended and reordered records
C8_Witness ==
  /\ Returned1
  /\ r1.updated >= 1 /\ r1.added >= 1
  /\ Merged1 # heap.savedConfigs \o heap.validConfigs
  /\ heap.savedConfigs # <<>>

\* C9: neither the import validation, nor mergeConfigs, nor the merge tool
\* throws, whatever the elements of the input are.
C9_NeverThrows ==
  /\ tool.done => ~tool.threw
  /\ imp.done => ~imp.threw
  /\ r1.done => ~r1.threw

\* record o is element c with the defaults filled in
Normalizes(o, c) ==
  /\ o.provider = (IF Missing(c.provider) THEN Str(Anyrouter) ELSE c.provider)
  /\ o.name = (IF Missing(c.name)
               THEN Str(JsToString(o.provider) \o <<"_">> \o JsToString(c.api_user))
               ELSE c.name)
  /\ o.session = c.session
  /\ JsToString(o.api_user) = JsToString(c.api_user)

\* C10: every record of the import path and of the merge tool has a
\* non-empty provider and name; a missing provider becomes "anyrouter", a
\* missing name becomes provider_api_user with the provider filled in.
C10_Defaults ==
  /\ (imp.done /\ ~imp.threw) =>
       /\ \A o \in Range(heap.validConfigs) :
            /\ ~Missing(o.provider) /\ ~Missing(o.name)
            /\ \E i \in 1..Len(input) : ~Lacks(input[i]) /\ Normalizes(o, input[i])
       /\ \A i \in 1..Len(input) :
            (~Lacks(input[i]) /\ input[i].api_user # Num(0)) =>
               \E o \in Range(heap.validConfigs) : Normalizes(o, input[i])
  /\ ReturnedTool =>
       \A o \in Range(tool.result) :
         /\ ~Missing(o.provider) /\ ~Missing(o.name)
         /\ \E i \in 1..Len(input) : ~Lacks(input[i]) /\ Normalizes(o, input[i])

\* the import and the merge tool completed an element that has neither a
\* provider nor a name
C10_Witness ==
  /\ imp.done /\ ~imp.threw /\ ReturnedTool
  /\ \E i \in 1..Len(input) :
       ~Lacks(input[i]) /\ Missing(input[i].provider) /\ Missing(input[i].name)
  /\ \E o \in Range(tool.result) : o.provider = Str(Anyrouter)
  /\ \E o \in Range(heap.validConfigs) : o.provider = Str(Anyrouter)

\* element c has a non-empty session and gives its api_user as a number
NumericUser(c) ==
  /\ c.k = "object" /\ c.cookies = "object"
  /\ ~Missing(c.session)
  /\ c.api_user.t = "number"

\* the provider of element c after the default is filled in
FilledProvider(c) == IF Missing(c.provider) THEN Str(Anyrouter) ELSE c.provider

\* arr holds a record of the provider of c whose api_user is the string
\* form of the number c gives, under the key of that provider and string
AcceptedAsString(arr, c) ==
  \E o \in Range(arr) :
    /\ o.provider = FilledProvider(c)
    /\ o.api_user = Str(NatToString(c.api_user.n))
    /\ KeyOf(o) = KeyOf([provider |-> FilledProvider(c), api_user |-> c.api_user])

\* C11: a source record with a non-empty session whose api_user is a
\* number, whatever the number, is accepted by the import validation and by
\* the merge tool, with the string form of the number as api_user and the
\* identity key of the record that gives that string.
C11_Coercion ==
  \A i \in 1..Len(input) :
    NumericUser(input[i]) =>
      /\ (imp.done /\ ~imp.threw) =>
           \E o \in Range(heap.validConfigs) :
             /\ o.session = input[i].session
             /\ o.api_user = Str(NatToString(input[i].api_user.n))
      /\ ReturnedTool => AcceptedAsString(tool.result, input[i])

\* element c passes the validation: it has a session and an api_user
ValidElement(c) ==
  /\ c.k = "object" /\ c.cookies = "object"
  /\ Truthy(c.session) /\ Truthy(c.api_user)

ElementKey(c) == TemplateKey(FilledProvider(c), c.api_user)

\* the last valid element of the input with the key of element i
LastValidWithKey(i) ==
  LET same == {j \in 1..Len(input) :
                 ValidElement(input[j]) /\ ElementKey(input[j]) = ElementKey(input[i])}
  IN input[CHOOSE j \in same : \A l \in same : l <= j]

\* C12: the merge tool on the flattened input X returns the sequence popup
\* mergeConfigs returns for no existing records and the import validation of
\* X; it holds, for each key, one record, made from the last valid element
\* of X with that key.
C12_ToolIsMergeOnEmpty ==
  (ReturnedTool /\ Returned1 /\ heap.savedConfigs = <<>>) =>
    /\ tool.result = Merged1
    /\ \A i \in 1..Len(input) :
         ValidElement(input[i]) =>
           \E j \in 1..Len(tool.result) :
             /\ Normalizes(tool.result[j], LastValidWithKey(i))
             /\ \A l \in 1..Len(tool.result) :
                  KeyOf(tool.result[l]) = ElementKey(input[i]) => l = j

\* both returned for an input of two valid elements of one key
C12_Witness ==
  /\ ReturnedTool /\ Returned1 /\ heap.savedConfigs = <<>>
  /\ Len(input) = 2
  /\ ValidElement(input[1]) /\ ValidElement(input[2])
  /\ input[1] # input[2]
  /\ ElementKey(input[1]) = ElementKey(input[2])
  /\ Len(tool.result) = 1

\* the identity keys among all records of the parsed arrays
DistinctKeys == {ElementKey(input[i]) : i \in 1..Len(input)}

\* C13: the number of duplicates the merge tool reports is the number of
\* records of the parsed arrays less the number of distinct identity keys
\* among them.
C13_DuplicatesRemoved ==
  (ReturnedTool /\ tool.status = "success") =>
    tool.duplicates = Len(input) - Cardinality(DistinctKeys)

\* the number of "[" less the number of "]" in text[a..b]
Balance(a, b) ==
  Cardinality({k \in a..b : text[k] = "["}) - Cardinality({k \in a..b : text[k] = "]"})

\* the position of the "]" that matches the "[" at a, 0 when there is none
MatchOf(a) ==
  LET closes == {b \in a..Len(text) : Balance(a, b) = 0}
  IN IF closes = {} THEN 0 ELSE CHOOSE b \in closes : \A c \in closes : b <= c

\* the substrings of text from position p on that start at a "[" outside
\* every bracket pair and end at its matching "]", in order of appearance
RECURSIVE SegmentsFrom(_)
SegmentsFrom(p) ==
  LET opens == {a \in p..Len(text) : text[a] = "["}
      a == CHOOSE x \in opens : \A y \in opens : x <= y
  IN IF opens = {} \/ MatchOf(a) = 0 THEN <<>>
     ELSE <<SubSeq(text, a, MatchOf(a))>> \o SegmentsFrom(MatchOf(a) + 1)

\* the parsed values of the segments that parse as a JSON array
RECURSIVE ParsedArrays(_)
ParsedArrays(segments) ==
  IF segments = <<>> THEN <<>>
  ELSE LET arr == JSON_parse(Head(segments))
       IN (IF arr.ok /\ arr.v.t = "array" THEN <<arr.v>> ELSE <<>>)
            \o ParsedArrays(Tail(segments))

\* C14: extractJsonArrays returns, in order of appearance, the parsed value
\* of every segment of the text that runs from a "[" outside every bracket
\* pair to its matching "]" and parses as a JSON array, whatever else the
\* text holds around the segments.
C14_Segments == scan.done => scan.arrays = ParsedArrays(SegmentsFrom(1))

\* the messages doImport reports a failure with: empty text, text that does
\* not parse to an array, no valid record
ImportFailures == {"pasteJson", "jsonError", "noValid"}

\* C15: a doImport that reports a failure (it shows one of the failure
\* messages and does not go on to its load) leaves the list in storage and
\* savedConfigs as they were, and no merge follows from it.
C15_FailedImportChangesNothing ==
  [][(doImport_click /\ status'.message \in ImportFailures /\ im'.pc # "loading") =>
       /\ storage' = storage
       /\ savedConfigs' = savedConfigs
       /\ im' = ImIdle]_vars

\* a failure was reported while accounts were stored, and while the stored
\* list and savedConfigs differed
C15_Witness ==
  /\ status.message \in ImportFailures
  /\ storage # <<>>
  /\ savedConfigs # storage
  /\ im.pc = "idle"

\* the records of the sites extraction e has been through for which both a
\* session cookie and an api_user were obtained, in selection order
RECURSIVE ObtainedFrom(_, _)
ObtainedFrom(e, k) ==
  IF k > Len(e.results) THEN <<>>
  ELSE LET provider == SiteOf(DEFAULT_SITES, e.selected[k]).provider
           res == e.results[k]
       IN (IF ~Missing(res.session) /\ ~Missing(res.api_user)
           THEN <<Account(Str(JsToString(provider) \o <<"_">> \o JsToString(res.api_user)),
                          provider, res.session, res.api_user)>>
           ELSE <<>>)
            \o ObtainedFrom(e, k + 1)

ObtainedOf(e) == ObtainedFrom(e, 1)

\* the lists mergeConfigs(P, R).merged can be
MergeOf(P, R) ==
  {o.h[o.merged] :
     o \in {x \in mergeConfigs([savedConfigs |-> P, validConfigs |-> R, merged |-> <<>>],
                               "savedConfigs", "validConfigs", "merged") : ~x.threw}}

\* C16: the list an extraction or an import writes to storage is
\* mergeConfigs(P, R).merged, for P the list that was in storage when the
\* operation loaded it and R the valid new records of the operation; when
\* the operation then reports success, savedConfigs and extractedConfigs
\* both are that list.
C16_ReplaceWholesale ==
  [][/\ (ex.pc = "site" /\ ex'.pc = "saving") =>
          storage' \in MergeOf(ex.loaded, ObtainedOf(ex'))
     /\ (im.pc = "loading" /\ im'.pc = "saving") =>
          storage' \in MergeOf(im.loaded, im.validConfigs)
     /\ (ex.pc = "saving" /\ ex'.pc = "idle") =>
          /\ status' = setStatus("extracted", "success")
          /\ savedConfigs' = ex.merged /\ extractedConfigs' = ex.merged
     /\ (im.pc = "saving" /\ im'.pc = "idle") =>
          /\ status' = setStatus("imported", "success")
          /\ savedConfigs' = im.merged /\ extractedConfigs' = im.merged]_vars

\* C17: each time extractAll is through with a site, and when it is through
\* with the last one, the extracted list is the records of the sites so far
\* for which both a session cookie and an api_user were obtained, in
\* selection order: a site without one of them adds nothing, and the sites
\* after it are gone through all the same.
C17_PartialFailure ==
  [][extractAll_site =>
       /\ ex'.pc # "idle" => extractedConfigs' = ObtainedOf(ex')
       /\ ex'.pc # "site" => ex.i = Len(ex.selected)]_vars

\* the operations on the persisted list that have started and not ended
InProgress ==
  {op \in {"extractAll", "doImport", "clearConfigs", "viewSaved"} :
     \/ op = "extractAll" /\ ex.pc \in {"loading", "site", "saving"}
     \/ op = "doImport" /\ im.pc \in {"loading", "saving"}
     \/ op = "clearConfigs" /\ cl = "saving"
     \/ op = "viewSaved" /\ vs.pc = "loading"}

\* C18: at most one of extractAll, doImport, clearConfigs and viewSaved is
\* in progress at any time, so none takes a step between the load and the
\* save of another.
C18_Serialized == Cardinality(InProgress) <= 1

FoldCase(str) ==
  [i \in 1..Len(str) |-> CASE str[i] = "A" -> "a" [] str[i] = "B" -> "b" [] OTHER -> str[i]]

\* records x and y have the same api_user and providers that differ, and
\* differ only in letter case
CaseTwins(x, y) ==
  /\ JsToString(x.api_user) = JsToString(y.api_user)
  /\ x.provider # y.provider
  /\ FoldCase(JsToString(x.provider)) = FoldCase(JsToString(y.provider))

\* arr holds a record with the provider and the api_user of x
HasRecordOf(arr, x) ==
  \E o \in Range(arr) :
    o.provider = x.provider /\ JsToString(o.api_user) = JsToString(x.api_user)

ValidInputs == {input[i] : i \in {j \in 1..Len(input) : ValidElement(input[j])}}

\* C19: two records that differ only in the letter case of provider are two
\* identities: each of them has its own record in the output of the popup
\* merge and of the merge tool, and neither replaces the other.
C19_CaseSensitive ==
  /\ Returned1 =>
       \A x, y \in Range(heap.savedConfigs) \cup ValidInputs :
         CaseTwins(x, y) => HasRecordOf(Merged1, x) /\ HasRecordOf(Merged1, y)
  /\ ReturnedTool =>
       \A x, y \in ValidInputs :
         CaseTwins(x, y) => HasRecordOf(tool.result, x) /\ HasRecordOf(tool.result, y)

\* both merges returned on an input of two records that differ only in the
\* case of provider, one of which differs so from an existing record
C19_Witness ==
  /\ Returned1 /\ ReturnedTool
  /\ \E x, y \in ValidInputs : CaseTwins(x, y)
  /\ \E x \in Range(heap.savedConfigs) : \E y \in ValidInputs :
       CaseTwins(x, y) /\ ~HasRecordOf(heap.savedConfigs, y)

\* the failed entries of provider anyrouter (blanks around the name aside)
FailedAnyrouter ==
  {i \in 1..Len(failedSitesReport) :
     /\ failedSitesReport[i].provider.t = "string"
     /\ trim(failedSitesReport[i].provider.s) = Anyrouter}

\* the api_user of the template of failed entry i: the one the entry gives,
\* or a placeholder numbered by the place of the entry in the report
FailedApiUser(i) ==
  LET given == failedSitesReport[i].api_user
  IN IF Missing(given) \/ given = Num(0)
     THEN REPLACE_ME \o <<"_">> \o trim(JsToString(failedSitesReport[i].provider))
            \o <<"_">> \o NatToString(i)
     ELSE trim(JsToString(given))

FailedKey(i) == Anyrouter \o <<"_">> \o FailedApiUser(i)

\* C20: the exported list has exactly one record for each provider+api_user
\* key among the saved configs and the templates of the failed anyrouter
\* entries, and no other record; it is sorted by provider; a placeholder
\* record is of provider anyrouter, so failed entries of other providers add
\* nothing; the record of the key of a failed anyrouter entry is the
\* placeholder, also when a saved config has that key; every other record
\* is a saved config.
C20_SecretExport ==
  (secret.pc = "done" /\ secret.merged # <<>>) =>
    LET merged == secret.merged
        saved == secret.loaded
        keys == {KeyOf(c) : c \in Range(saved)} \cup {FailedKey(i) : i \in FailedAnyrouter}
    IN /\ {KeyOf(o) : o \in Range(merged)} = keys
       /\ Len(merged) = Cardinality(keys)
       /\ LocaleNonDecreasing(merged)
       /\ \A o \in Range(merged) :
            IF o.session = Str(REPLACE_ME_SESSION)
            THEN o.provider = Str(Anyrouter) /\ \E i \in FailedAnyrouter : KeyOf(o) = FailedKey(i)
            ELSE o \in Range(saved) /\ \A i \in FailedAnyrouter : KeyOf(o) # FailedKey(i)

\* an export of saved configs of two providers, with a failed anyrouter
\* entry of the key of a saved config and a failed entry of another provider
C20_Witness ==
  /\ secret.pc = "done" /\ Len(secret.merged) >= 2
  /\ \E i \in FailedAnyrouter : \E c \in Range(secret.loaded) : KeyOf(c) = FailedKey(i)
  /\ \E i \in 1..Len(failedSitesReport) : i \notin FailedAnyrouter
  /\ \E c \in Range(secret.loaded) : c.provider # Str(Anyrouter)

\* how often record c occurs in arr
Occurrences(arr, c) == Cardinality({i \in 1..Len(arr) : arr[i] = c})

\* C21: a record of existing whose key no incoming record has is in the
\* output as it was (name, provider, session, api_user), as often as it was
\* in existing, and every record of the output is a record of existing or
\* of incoming.
C21_Frame ==
  Returned1 =>
    LET existing == heap.savedConfigs
        incoming == heap.validConfigs
    IN /\ \A c \in Range(existing) :
            (\A n \in Range(incoming) : KeyOf(n) # KeyOf(c)) =>
               Occurrences(Merged1, c) = Occurrences(existing, c)
       /\ \A o \in Range(Merged1) : o \in Range(existing) \cup Range(incoming)

\* a merge returned that replaced one existing record, added one, and left
\* an existing record of another key alone
C21_Witness ==
  /\ Returned1
  /\ r1.updated >= 1
  /\ \E c \in Range(heap.savedConfigs) :
       \A n \in Range(heap.validConfigs) : KeyOf(n) # KeyOf(c)
  /\ \E n \in Range(heap.validConfigs) : n \notin Range(heap.savedConfigs)

\* C22: for every call of popup mergeConfigs that returns, updated + added
\* is the number of records of newConfigs, and merged has as many records
\* as existingConfigs and added together.
C22_CounterArithmetic ==
  /\ Returned1 =>
       /\ r1.updated + r1.added = Len(heap.validConfigs)
       /\ Len(Merged1) = Len(heap.savedConfigs) + r1.added
  /\ (r2.done /\ ~r2.threw) =>
       /\ r2.updated + r2.added = Len(heap.empty)
       /\ Len(heap[r2.merged]) = Len(Merged1) + r2.added

\* a call returned that replaced and added records, and a call on no new
\* records returned
C22_Witness ==
  /\ Returned1 /\ r1.updated >= 1 /\ r1.added >= 1
  /\ r2.done /\ ~r2.threw /\ Len(heap[r2.merged]) >= 2

NoTwoSameKey(arr) ==
  \A i, j \in 1..Len(arr) : i < j => KeyOf(arr[i]) # KeyOf(arr[j])

\* C23: from an empty store on, whenever the operations started so far have
\* all completed, the list in storage holds no two records of one
\* provider+api_user key, is sorted by provider, and every record of it has
\* a non-empty session and a non-empty api_user.
C23_PersistedList ==
  InProgress = {} =>
    /\ NoTwoSameKey(storage)
    /\ LocaleNonDecreasing(storage)
    /\ \A o \in Range(storage) : HasSessionAndUser(o)

\* x and y are records of two different (provider, api_user) pairs
OtherPair(x, y) ==
  \/ FilledProvider(x) # FilledProvider(y)
  \/ JsToString(x.api_user) # JsToString(y.api_user)

\* C24: two valid records of different (provider, api_user) pairs have
\* different identity keys, also when provider or api_user holds "_", so
\* each of them has its own record in the output of the popup merge and of
\* the merge tool: none is replaced or removed by a record of another pair.
C24_KeysDoNotCollide ==
  /\ \A x, y \in Range(heap.savedConfigs) \cup ValidInputs :
       OtherPair(x, y) => ElementKey(x) # ElementKey(y)
  /\ Returned1 =>
       \A x \in Range(heap.savedConfigs) \cup ValidInputs : HasRecordOf(Merged1, x)
  /\ ReturnedTool =>
       \A x \in ValidInputs : HasRecordOf(tool.result, x)

\* every record of arr has the key of a record of news
OnlyKeysOf(arr, news) ==
  \A o \in Range(arr) : \E v \in Range(news) : KeyOf(o) = KeyOf(v)

\* C26: a clear is durable.  An import or an extraction that was in
\* progress when clearConfigs emptied the storage, and writes while the
\* storage is still empty, writes only the records it imports or extracts
\* itself: no record of the list from before the clear comes back.
C26_ClearIsDurable ==
  [][/\ (im.pc = "loading" /\ im'.pc = "saving" /\ storage = <<>>) =>
          OnlyKeysOf(storage', im.validConfigs)
     /\ (ex.pc = "site" /\ ex'.pc = "saving" /\ storage = <<>>) =>
          OnlyKeysOf(storage', ObtainedOf(ex'))]_vars

\* C27: an extraction that obtains no record, because no site is selected
\* or because no selected site yields a session and an api_user, ends with
\* an error message and leaves the list in storage as it is.
C27_EmptyExtraction ==
  [][/\ (extractAll_click /\ ex'.pc = "idle") =>
          /\ status' = setStatus("selectSite", "error")
          /\ storage' = storage
     /\ (extractAll_site /\ ex'.pc # "site" /\ ObtainedOf(ex') = <<>>) =>
          /\ status' = setStatus("nothingExtracted", "error")
          /\ storage' = storage
          /\ ex'.pc = "idle"]_vars

\* C25: every extraction that has started ends, with the extract button
\* enabled again, whatever the other operations of the popup do meanwhile,
\* a deleteSite or a saveSite included.
C25_ExtractionEnds ==
  (ex.pc # "idle" /\ extractBtnDisabled) ~> (ex.pc = "idle" /\ ~extractBtnDisabled)

\* every entry of the table has its key as provider, and no two entries
\* have one key or one provider
ProviderIsKey(table) ==
  /\ \A i \in 1..Len(table) : table[i].provider = Str(table[i].siteId)
  /\ \A i, j \in 1..Len(table) :
       i # j => table[i].siteId # table[j].siteId /\ table[i].provider # table[j].provider

\* C28: from DEFAULT_SITES on, whatever saveSite and deleteSite do, every
\* entry of SITES_CONFIG and of the stored sites_config has provider equal
\* to its key, so no two sites share a provider; and a saveSite of the form
\* in add mode changes the table only when the provider typed is no key of
\* it.
C28_SiteTable ==
  [][/\ ProviderIsKey(SITES_CONFIG') /\ ProviderIsKey(sites_config'.entries)
     /\ (saveSite_click /\ siteFormView = "add" /\ sv'.pc = "saving") =>
          ~HasSite(SITES_CONFIG, sv'.provider)]_vars

\* the sites of table are sites of stored
OnlySitesOf(table, stored) ==
  \A i \in 1..Len(table) : HasSite(stored, table[i].siteId)

\* C29 as stated: a confirmed deleteSite(s) takes s out of SITES_CONFIG and
\* of the stored table, and every later loadSitesConfig returns sites of the
\* stored table only, so s is not back before a saveSite has added it; also
\* when s was the last site.
C29_StaysDeleted ==
  [][/\ (deleteSite_click /\ del'.pc = "saving") =>
          ~HasSite(SITES_CONFIG', del'.siteId) /\ ~HasSite(sites_config'.entries, del'.siteId)
     /\ (init_sitesLoaded /\ sites_config.k = "object") =>
          OnlySitesOf(SITES_CONFIG', sites_config.entries)]_vars

\* C29, amended: the same as long as the stored table holds a site; when s
\* was the last site, the next loadSitesConfig returns DEFAULT_SITES.
C29_StaysDeletedWhileSitesRemain ==
  [][/\ (deleteSite_click /\ del'.pc = "saving") =>
          ~HasSite(SITES_CONFIG', del'.siteId) /\ ~HasSite(sites_config'.entries, del'.siteId)
     /\ (init_sitesLoaded /\ sites_config.k = "object") =>
          IF Len(sites_config.entries) > 0
          THEN OnlySitesOf(SITES_CONFIG', sites_config.entries)
          ELSE SITES_CONFIG' = DEFAULT_SITES]_vars

\* the popup has been opened again after a deleteSite that left a site, and
\* loadSitesConfig has returned the table without the deleted site
C29_Witness ==
  /\ boot.pc = "loadingConfigs"
  /\ sites_config.k = "object"
  /\ Len(SITES_CONFIG) = 1
  /\ SITES_CONFIG = sites_config.entries
  /\ \E i \in 1..Len(DEFAULT_SITES) : ~HasSite(SITES_CONFIG, DEFAULT_SITES[i].siteId)

====
